---- MODULE Spec2Model ----
(***************************************************************************)
(* State-machine model of UptimeMonitor                                    *)
(* (src/monitoring/sla/uptime_monitor.py): the run loop of                 *)
(* start_monitoring, the per-monitor incident handling, the SLA checks,    *)
(* the statistics, the retention pruning and the report.                   *)
(*                                                                         *)
(* Time is an integer clock `now` counted in units of 1/SECOND seconds.    *)
(* datetime.utcnow() reads `now`; int(time.time()) reads now \div SECOND.  *)
(* Percentages are kept exact: a percentage is a record [num, den] that    *)
(* stands for num/den percent, and a configured percentage is an integer   *)
(* number of tenths of a percent (99.8 is 998).  Latencies are integer     *)
(* milliseconds.  Python's None is the value None below.                   *)
(***************************************************************************)
EXTENDS Integers, Sequences, FiniteSets, TLC

\* ---------------------------------------------------------------- bounds
\* Number of ticks of the run loop a behaviour may start.
MaxTicks == 3

\* ------------------------------------------------------ program constants
\* Clock units per second: int(time.time()) truncates to whole seconds.
SECOND == 2
HOUR == 3600 * SECOND
DAY == 24 * HOUR
MONTH == 30 * DAY
\* Python's None, for an Optional[float] / Optional[int] field.
None == 0 - 1
\* float('inf'), the initial min_response_time.
Inf == 1000000000
\* Capacity of the response_times list.
RingCapacity == 1000

UP == "up"
DOWN == "down"
DEGRADED == "degraded"

INFO == "info"
WARNING == "warning"
CRITICAL == "critical"
EMERGENCY == "emergency"

\* ------------------------------------------------------------ configuration
\* self.monitors, in the insertion order list(self.monitors.keys()) yields.
MonitorOrder == <<"api", "web">>
MonitorNames == {MonitorOrder[i] : i \in 1..Len(MonitorOrder)}

\* config['monitors']: the request method and the expected_response_time (ms)
\* of each monitor; expected_status is the code the probe compares with.
DefaultMonitors ==
  [m \in MonitorNames |->
     IF m = "api"
     THEN [method |-> "GET", expected_response_time |-> 550]
     ELSE [method |-> "POST", expected_response_time |-> 5000]]

\* The defaults of _load_sla_thresholds.
default_thresholds ==
  [uptime |->
     [name |-> "Service Uptime", target_value |-> 999,
      measurement_unit |-> "percentage", measurement_period |-> "monthly",
      violation_threshold |-> 998, compensation_rate |-> 10],
   api_response_time |->
     [name |-> "API Response Time", target_value |-> 200,
      measurement_unit |-> "milliseconds", measurement_period |-> "daily",
      violation_threshold |-> 500, compensation_rate |-> 5],
   harmonic_processing_time |->
     [name |-> "Harmonic Processing Time", target_value |-> 100,
      measurement_unit |-> "milliseconds", measurement_period |-> "hourly",
      violation_threshold |-> 250, compensation_rate |-> 2]]

\* Merge of config['sla_thresholds'] (a map name -> map field -> value) into
\* the defaults: setattr on the default for a known name, the defaults for
\* every name the configuration leaves out.
RECURSIVE SetAttrs(_, _, _)
SetAttrs(threshold, config_data, keys) ==
  IF keys = {} THEN threshold
  ELSE LET key == CHOOSE k \in keys : TRUE
       IN SetAttrs([threshold EXCEPT ![key] = config_data[key]],
                   config_data, keys \ {key})

\* Variant of _load_sla_thresholds without the final loop that adds the
\* defaults the configuration leaves out.
_load_sla_thresholds_ConfiguredOnly(sla_config) ==
  [name \in DOMAIN sla_config |->
     IF name \in DOMAIN default_thresholds
     THEN SetAttrs(default_thresholds[name], sla_config[name],
                   DOMAIN sla_config[name])
     ELSE sla_config[name]]

_load_sla_thresholds(sla_config) ==
  [name \in DOMAIN default_thresholds \cup DOMAIN sla_config |->
     IF name \in DOMAIN sla_config
     THEN IF name \in DOMAIN default_thresholds
          THEN SetAttrs(default_thresholds[name], sla_config[name],
                        DOMAIN sla_config[name])
          ELSE sla_config[name]
     ELSE default_thresholds[name]]

\* ------------------------------------------------------------------ state
VARIABLES
  now,                \* the wall clock, in 1/SECOND seconds
  check_interval,     \* the argument of start_monitoring
  sla_thresholds,     \* self.sla_thresholds
  monitors,           \* self.monitors
  alert_channels,     \* self.alert_channels
  pc,                 \* position of the run loop
  ticks,              \* ticks started by this call of start_monitoring
  pending,            \* monitors whose probe task is still in flight
  results,            \* what gather returned for this tick, by monitor
  idx,                \* index (in MonitorOrder) of the result being processed
  monitor_results,    \* self.monitor_results
  current_incidents,  \* self.current_incidents
  sla_violations,     \* self.sla_violations
  uptime_stats,       \* self.uptime_stats
  performance_stats,  \* self.performance_stats
  alerts,             \* the alert_data of every _send_alert call, in order
  report,             \* the value of the last generate_sla_report call
  seen,               \* history: every result ingested per monitor, never pruned
  opened,             \* history: incidents entered into current_incidents
  resolved,           \* history: incidents deleted from current_incidents
  pruned,             \* history: the tick whose retention pruning ran last
  tick_start,         \* history: the time the present tick was started
  consent_records,    \* GDPREngine: self.consent_records
  returned,           \* GDPREngine: the last consent call and what it returned
  consent_history     \* history: per (user, purpose), what the calls said

vars == <<now, check_interval, sla_thresholds, monitors, alert_channels, pc,
          ticks, pending, results, idx, monitor_results, current_incidents,
          sla_violations, uptime_stats, performance_stats, alerts, report,
          seen, opened, resolved, pruned, tick_start, consent_records,
          returned, consent_history>>

\* The state of the GDPR engine, which the uptime monitor does not touch.
consent == <<consent_records, returned, consent_history>>

\* The state of the uptime monitor but the wall clock, which the GDPR engine
\* does not touch.
monitoring ==
  <<check_interval, sla_thresholds, monitors, alert_channels, pc, ticks,
    pending, results, idx, monitor_results, current_incidents,
    sla_violations, uptime_stats, performance_stats, alerts, report, seen,
    opened, resolved, pruned, tick_start>>

engine == <<monitor_results, current_incidents, sla_violations, uptime_stats,
            performance_stats>>


\* ------------------------------------------------------------- the probe
\* What happens to one probe task: a response (its status code and the
\* elapsed milliseconds), a timeout, a transport error, or an exception that
\* leaves _check_monitor (one raised outside its try block or inside one of
\* its handlers), which gather hands back as a value.
Response(code, ms) == [kind |-> "response", status_code |-> code, ms |-> ms]
Timeout == [kind |-> "timeout", status_code |-> None, ms |-> None]
TransportError == [kind |-> "error", status_code |-> None, ms |-> None]
Raised == [kind |-> "raised", status_code |-> None, ms |-> None]

\* config.get('expected_status', 200)
expected_status == 200

NoError == "None"

MonitorResult(timestamp, status, response_time, status_code, error_message) ==
  [timestamp |-> timestamp, status |-> status, response_time |-> response_time,
   status_code |-> status_code, error_message |-> error_message]

\* What a probe task can leave in gather's list besides a MonitorResult: the
\* value None, and an exception instance.
NoneResult == [returned |-> "None"]
TaskException == [exception |-> "Exception"]
IsException(result) == "exception" \in DOMAIN result
IsMonitorResult(result) == "status" \in DOMAIN result

\* _check_monitor: what one probe that ends at time t returns, a
\* MonitorResult, or None when the method is neither GET nor POST and the
\* function falls out of its if/elif.
_check_monitor(monitor_name, outcome, t) ==
  LET config == monitors[monitor_name]
  IN IF config.method \notin {"GET", "POST"}
     THEN NoneResult  \* no request is made
     ELSE CASE outcome.kind = "timeout" ->
                 MonitorResult(t, DOWN, None, None, "Request timeout")
            [] outcome.kind = "error" ->
                 MonitorResult(t, DOWN, None, None, "error")
            [] outcome.kind = "response" /\ config.method = "GET" ->
                 MonitorResult(t,
                   IF /\ outcome.status_code = expected_status
                      /\ outcome.ms <= config.expected_response_time
                   THEN UP
                   ELSE IF outcome.status_code = expected_status
                        THEN DEGRADED
                        ELSE DOWN,
                   outcome.ms, outcome.status_code, NoError)
            [] outcome.kind = "response" /\ config.method = "POST" ->
                 MonitorResult(t,
                   IF outcome.status_code = expected_status THEN UP ELSE DOWN,
                   outcome.ms, outcome.status_code, NoError)

\* What gather puts in its list for one probe task.
TaskResult(monitor_name, outcome, t) ==
  IF outcome.kind = "raised"
  THEN TaskException
  ELSE _check_monitor(monitor_name, outcome, t)

\* ------------------------------------------------------------ dictionaries
\* Variant of Put that assigns the value under every key of the dict.
Put_EveryKey(d, k, v) == [x \in DOMAIN d \cup {k} |-> v]
\* d[k] = v for a Python dict d.
Put(d, k, v) == [x \in DOMAIN d \cup {k} |-> IF x = k THEN v ELSE d[x]]
\* del d[k]
Del(d, k) == [x \in DOMAIN d \ {k} |-> d[x]]
EmptyDict == [x \in {} |-> 0]
\* s[-1] for a Python list s.
Last(s) == s[Len(s)]

\* The monitor whose result the loop is processing, and that result.
cur_monitor == MonitorOrder[idx]
cur_result == results[cur_monitor]

\* --------------------------------------------------------------- alerts
\* The alert_data dictionary of _send_alert, and with it what its loop over
\* the channels did: the outcome of every channel it got to, and whether an
\* exception left _send_alert.
alert_data(severity, title, monitor_name, message, incident_id) ==
  [severity |-> severity, title |-> title, monitor_name |-> monitor_name,
   message |-> message, incident_id |-> incident_id, timestamp |-> now,
   attempts |-> <<>>, raised |-> FALSE]

\* Channels of config['alert_channels']: dictionaries, with or without a
\* 'type' key.
SlackChannel == [type |-> "slack", webhook_url |-> "hook"]
EmailChannel == [type |-> "email"]
UntypedChannel == [webhook_url |-> "hook"]

\* The status a Slack webhook answers with.
SlackStatuses == {200, 500}

\* One pass of the loop body of _send_alert for a channel: "delivered",
\* "failed" (an exception caught and logged), "ignored" (no branch taken) or
\* "raises": without a 'type' key the if raises KeyError, and the handler's
\* log message evaluates channel['type'] again.
_send_alert_channel(channel, status) ==
  IF "type" \notin DOMAIN channel THEN "raises"
  ELSE IF channel.type = "slack"
       THEN IF "webhook_url" \notin DOMAIN channel THEN "failed"
            ELSE IF status = 200 THEN "delivered" ELSE "failed"
  ELSE IF channel.type \in {"email", "webhook", "pagerduty"}
       THEN "failed"  \* the _send_*_alert method does not exist
  ELSE "ignored"

\* The loop of _send_alert from channel i on, statuses[j] what the webhook of
\* channel j answers.
RECURSIVE _send_alert_channels(_, _, _)
_send_alert_channels(channels, statuses, i) ==
  IF i > Len(channels)
  THEN [attempts |-> <<>>, raised |-> FALSE]
  ELSE LET outcome == _send_alert_channel(channels[i], statuses[i])
       IN IF outcome = "raises"
          THEN [attempts |-> <<outcome>>, raised |-> TRUE]
          ELSE LET rest == _send_alert_channels(channels, statuses, i + 1)
               IN [attempts |-> <<outcome>> \o rest.attempts,
                   raised |-> rest.raised]

\* The answers the channels can give: a status per channel, fixed to 200
\* where no request is made.
ChannelStatuses ==
  {statuses \in [1..Len(alert_channels) -> SlackStatuses] :
     \A i \in 1..Len(alert_channels) :
       _send_alert_channel(alert_channels[i], 500)
         = _send_alert_channel(alert_channels[i], 200) => statuses[i] = 200}

Dispatched(alert, statuses) ==
  LET sent == _send_alert_channels(alert_channels, statuses, 1)
  IN [alert EXCEPT !.attempts = sent.attempts, !.raised = sent.raised]

\* _send_alert up to its loop over the channels: alert_data is built.
_send_alert(severity, title, monitor_name, message, incident_id) ==
  alerts' = Append(alerts,
    alert_data(severity, title, monitor_name, message, incident_id))

\* The loop over the channels of the _send_alert call in progress ends.
_send_alert_returns ==
  \E statuses \in ChannelStatuses :
    alerts' = [alerts EXCEPT ![Len(alerts)] = Dispatched(@, statuses)]

\* A whole _send_alert call.
_send_alert_awaited(severity, title, monitor_name, message, incident_id) ==
  \E statuses \in ChannelStatuses :
    alerts' = Append(alerts,
      Dispatched(alert_data(severity, title, monitor_name, message,
                            incident_id), statuses))

\* ------------------------------------------------------------- incidents
\* The incident dictionary _handle_incident builds for a new incident.
NewIncident(monitor_name, result) ==
  [incident_id |-> <<"INC", now \div SECOND, monitor_name>>,
   monitor_name |-> monitor_name,
   start_time |-> result.timestamp,
   status |-> result.status,
   error_message |-> result.error_message,
   alert_sent |-> FALSE]

\* Variant of _handle_incident that alerts on every non-UP result.
_handle_incident_EveryResult(monitor_name, result) ==
  LET incident == IF monitor_name \in DOMAIN current_incidents
                  THEN current_incidents[monitor_name]
                  ELSE NewIncident(monitor_name, result)
  IN /\ current_incidents' = Put(current_incidents, monitor_name, incident)
     /\ opened' = IF monitor_name \in DOMAIN current_incidents
                  THEN opened
                  ELSE [opened EXCEPT ![monitor_name] = @ + 1]
     /\ _send_alert(IF result.status = DOWN THEN CRITICAL ELSE WARNING,
                    <<"Service", result.status>>, monitor_name,
                    result.error_message, incident.incident_id)
     /\ pc' = "incident_alert"

\* Variant of _handle_incident that moves start_time of an ongoing incident
\* to the latest non-UP result.
_handle_incident_RestartsClock(monitor_name, result) ==
  IF monitor_name \notin DOMAIN current_incidents
  THEN LET incident == NewIncident(monitor_name, result)
       IN /\ current_incidents' = Put(current_incidents, monitor_name, incident)
          /\ opened' = [opened EXCEPT ![monitor_name] = @ + 1]
          /\ _send_alert(IF result.status = DOWN THEN CRITICAL ELSE WARNING,
                         <<"Service", result.status>>, monitor_name,
                         result.error_message, incident.incident_id)
          /\ pc' = "incident_alert"
  ELSE /\ current_incidents' =
            [current_incidents EXCEPT
               ![monitor_name].start_time = result.timestamp]
       /\ UNCHANGED <<alerts, opened>>
       /\ pc' = "check_uptime"

\* Variant of _handle_incident that records the status and the error
\* message of the latest non-UP result in the ongoing incident.
_handle_incident_Escalates(monitor_name, result) ==
  IF monitor_name \notin DOMAIN current_incidents
  THEN LET incident == NewIncident(monitor_name, result)
       IN /\ current_incidents' = Put(current_incidents, monitor_name, incident)
          /\ opened' = [opened EXCEPT ![monitor_name] = @ + 1]
          /\ _send_alert(IF result.status = DOWN THEN CRITICAL ELSE WARNING,
                         <<"Service", result.status>>, monitor_name,
                         result.error_message, incident.incident_id)
          /\ pc' = "incident_alert"
  ELSE /\ current_incidents' =
            [current_incidents EXCEPT
               ![monitor_name].status = result.status,
               ![monitor_name].error_message = result.error_message]
       /\ UNCHANGED <<alerts, opened>>
       /\ pc' = "check_uptime"

\* _handle_incident up to its await of _send_alert.
_handle_incident(monitor_name, result) ==
  IF monitor_name \notin DOMAIN current_incidents
  THEN LET incident == NewIncident(monitor_name, result)
       IN /\ current_incidents' = Put(current_incidents, monitor_name, incident)
          /\ opened' = [opened EXCEPT ![monitor_name] = @ + 1]
          /\ _send_alert(IF result.status = DOWN THEN CRITICAL ELSE WARNING,
                         <<"Service", result.status>>, monitor_name,
                         result.error_message, incident.incident_id)
          /\ pc' = "incident_alert"
  ELSE /\ UNCHANGED <<current_incidents, alerts, opened>>
       /\ pc' = "check_uptime"

\* _resolve_incident up to its await of _send_alert.
_resolve_incident(monitor_name, result) ==
  IF monitor_name \in DOMAIN current_incidents
  THEN LET incident == current_incidents[monitor_name]
           downtime == result.timestamp - incident.start_time
       IN /\ _send_alert(INFO, <<"Service", "RECOVERED">>, monitor_name,
                         downtime, incident.incident_id)
          /\ pc' = "resolve_alert"
          /\ UNCHANGED <<current_incidents, opened>>
  ELSE /\ UNCHANGED <<current_incidents, alerts, opened>>
       /\ pc' = "check_uptime"

\* Variant of _process_monitor_result that opens incidents for DOWN only.
_process_monitor_result_DownOnly(monitor_name, result) ==
  IF result.status = DOWN
  THEN _handle_incident(monitor_name, result)
  ELSE IF monitor_name \in DOMAIN current_incidents
       THEN _resolve_incident(monitor_name, result)
       ELSE /\ UNCHANGED <<current_incidents, alerts, opened>>
            /\ pc' = "check_uptime"

\* _process_monitor_result up to the first await: the incident step.
_process_monitor_result(monitor_name, result) ==
  IF result.status \in {DOWN, DEGRADED}
  THEN _handle_incident(monitor_name, result)
  ELSE IF monitor_name \in DOMAIN current_incidents
       THEN _resolve_incident(monitor_name, result)
       ELSE /\ UNCHANGED <<current_incidents, alerts, opened>>
            /\ pc' = "check_uptime"

\* _handle_incident after the alert: incident['alert_sent'] = True.
_handle_incident_sent(monitor_name) ==
  current_incidents' =
    [current_incidents EXCEPT ![monitor_name].alert_sent = TRUE]

\* Variant of _resolve_incident that leaves the incident in
\* current_incidents.
_resolve_incident_archive_KeepsIncident(monitor_name, result) ==
  /\ current_incidents' =
       [current_incidents EXCEPT ![monitor_name].alert_sent = TRUE]
  /\ resolved' = [resolved EXCEPT ![monitor_name] = @ + 1]

\* _resolve_incident after the alert: the incident dictionary gets its
\* end_time, downtime and resolved keys and leaves current_incidents.
_resolve_incident_archive(monitor_name, result) ==
  /\ current_incidents' = Del(current_incidents, monitor_name)
  /\ resolved' = [resolved EXCEPT ![monitor_name] = @ + 1]

\* --------------------------------------------------------- uptime and SLA
\* A percentage num/den, and its comparison with a configured percentage
\* given in tenths of a percent.
Pct(num, den) == [num |-> num, den |-> den]
\* Variant of PctLess that also holds at the threshold.
PctLess_OrEqual(p, tenths) == p.num * 10 <= tenths * p.den
PctLess(p, tenths) == p.num * 10 < tenths * p.den
PctAtLeast(p, tenths) == p.num * 10 >= tenths * p.den

\* The start of the trailing window of a period at the present time.
WindowStart(period) ==
  IF period = "hourly" THEN now - HOUR
  ELSE IF period = "daily" THEN now - DAY
  ELSE IF period = "monthly" THEN now - MONTH
  ELSE now - HOUR

\* Variant of _calculate_uptime_percentage that counts every result that is
\* not DOWN as up.
_calculate_uptime_percentage_NotDown(monitor_name, period) ==
  IF monitor_name \notin DOMAIN monitor_results
  THEN Pct(100, 1)
  ELSE LET start_time == WindowStart(period)
           InWindow(r) == r.timestamp >= start_time
           IsUp(r) == r.status # DOWN
           in_window == SelectSeq(monitor_results[monitor_name], InWindow)
           up_count == Len(SelectSeq(in_window, IsUp))
           total_count == Len(in_window)
       IN IF total_count = 0
          THEN Pct(100, 1)
          ELSE Pct(up_count * 100, total_count)

\* Variant of _calculate_uptime_percentage that leaves out the last stored
\* result, as if the result in hand had not been appended yet.
_calculate_uptime_percentage_BeforeAppend(monitor_name, period) ==
  IF monitor_name \notin DOMAIN monitor_results
  THEN Pct(100, 1)
  ELSE LET start_time == WindowStart(period)
           InWindow(r) == r.timestamp >= start_time
           IsUp(r) == r.status = UP
           stored == monitor_results[monitor_name]
           in_window == SelectSeq(SubSeq(stored, 1, Len(stored) - 1), InWindow)
           up_count == Len(SelectSeq(in_window, IsUp))
           total_count == Len(in_window)
       IN IF total_count = 0
          THEN Pct(100, 1)
          ELSE Pct(up_count * 100, total_count)

_calculate_uptime_percentage(monitor_name, period) ==
  IF monitor_name \notin DOMAIN monitor_results
  THEN Pct(100, 1)
  ELSE LET start_time == WindowStart(period)
           InWindow(r) == r.timestamp >= start_time
           IsUp(r) == r.status = UP
           in_window == SelectSeq(monitor_results[monitor_name], InWindow)
           up_count == Len(SelectSeq(in_window, IsUp))
           total_count == Len(in_window)
       IN IF total_count = 0
          THEN Pct(100, 1)
          ELSE Pct(up_count * 100, total_count)

\* Variant of the uptime check that puts the violation at the head of the log.
_check_sla_violations_uptime_Prepends(monitor_name, result) ==
  IF result.status = DOWN
  THEN LET uptime_percentage ==
             _calculate_uptime_percentage(monitor_name, "monthly")
           uptime_threshold == sla_thresholds["uptime"]
           violation ==
             [violation_id |->
                <<"SLA", now \div SECOND, monitor_name, "uptime">>,
              monitor_name |-> monitor_name,
              sla_type |-> "uptime",
              threshold |-> uptime_threshold.target_value,
              actual_value |-> uptime_percentage,
              timestamp |-> result.timestamp,
              compensation_rate |-> uptime_threshold.compensation_rate]
       IN IF PctLess(uptime_percentage, uptime_threshold.violation_threshold)
          THEN /\ sla_violations' = <<violation>> \o sla_violations
               /\ _send_alert_awaited(EMERGENCY,
                    <<"SLA VIOLATION", "uptime">>, monitor_name,
                    uptime_percentage, violation.violation_id)
          ELSE UNCHANGED <<sla_violations, alerts>>
  ELSE UNCHANGED <<sla_violations, alerts>>

\* The uptime half of _check_sla_violations.
_check_sla_violations_uptime(monitor_name, result) ==
  IF result.status = DOWN
  THEN LET uptime_percentage ==
             _calculate_uptime_percentage(monitor_name, "monthly")
           uptime_threshold == sla_thresholds["uptime"]
           violation ==
             [violation_id |->
                <<"SLA", now \div SECOND, monitor_name, "uptime">>,
              monitor_name |-> monitor_name,
              sla_type |-> "uptime",
              threshold |-> uptime_threshold.target_value,
              actual_value |-> uptime_percentage,
              timestamp |-> result.timestamp,
              compensation_rate |-> uptime_threshold.compensation_rate]
       IN IF PctLess(uptime_percentage, uptime_threshold.violation_threshold)
          THEN /\ sla_violations' = Append(sla_violations, violation)
               /\ _send_alert_awaited(EMERGENCY,
                    <<"SLA VIOLATION", "uptime">>, monitor_name,
                    uptime_percentage, violation.violation_id)
          ELSE UNCHANGED <<sla_violations, alerts>>
  ELSE UNCHANGED <<sla_violations, alerts>>

\* Python's truth value of an Optional[float]: None and 0.0 are false.
Truthy(x) == x # None /\ x # 0

\* Variant of the response-time check that also fires at the threshold.
_check_sla_violations_response_time_AtThreshold(monitor_name, result) ==
  IF Truthy(result.response_time)
  THEN LET response_threshold == sla_thresholds["api_response_time"]
           violation ==
             [violation_id |->
                <<"SLA", now \div SECOND, monitor_name, "response_time">>,
              monitor_name |-> monitor_name,
              sla_type |-> "response_time",
              threshold |-> response_threshold.target_value,
              actual_value |-> Pct(result.response_time, 1),
              timestamp |-> result.timestamp,
              compensation_rate |-> response_threshold.compensation_rate]
       IN IF result.response_time >= response_threshold.violation_threshold
          THEN /\ sla_violations' = Append(sla_violations, violation)
               /\ _send_alert_awaited(WARNING,
                    <<"SLA VIOLATION", "response_time">>, monitor_name,
                    result.response_time, violation.violation_id)
          ELSE UNCHANGED <<sla_violations, alerts>>
  ELSE UNCHANGED <<sla_violations, alerts>>

\* The response-time half of _check_sla_violations.  actual_value is kept
\* as the exact ratio ms/1, like the percentages.
_check_sla_violations_response_time(monitor_name, result) ==
  IF Truthy(result.response_time)
  THEN LET response_threshold == sla_thresholds["api_response_time"]
           violation ==
             [violation_id |->
                <<"SLA", now \div SECOND, monitor_name, "response_time">>,
              monitor_name |-> monitor_name,
              sla_type |-> "response_time",
              threshold |-> response_threshold.target_value,
              actual_value |-> Pct(result.response_time, 1),
              timestamp |-> result.timestamp,
              compensation_rate |-> response_threshold.compensation_rate]
       IN IF result.response_time > response_threshold.violation_threshold
          THEN /\ sla_violations' = Append(sla_violations, violation)
               /\ _send_alert_awaited(WARNING,
                    <<"SLA VIOLATION", "response_time">>, monitor_name,
                    result.response_time, violation.violation_id)
          ELSE UNCHANGED <<sla_violations, alerts>>
  ELSE UNCHANGED <<sla_violations, alerts>>

\* ------------------------------------------------------------- statistics
\* sum(s), by halves so that a full ring is summed at a shallow depth.
RECURSIVE Sum(_)
Sum(s) ==
  IF s = <<>> THEN 0
  ELSE IF Len(s) = 1 THEN s[1]
  ELSE LET half == Len(s) \div 2
       IN Sum(SubSeq(s, 1, half)) + Sum(SubSeq(s, half + 1, Len(s)))
Min2(a, b) == IF a <= b THEN a ELSE b
Max2(a, b) == IF a >= b THEN a ELSE b
\* s[-n:]
LastN(s, n) == IF Len(s) > n THEN SubSeq(s, Len(s) - n + 1, Len(s)) ELSE s

InitialUptimeStat ==
  [total_checks |-> 0, successful_checks |-> 0, failed_checks |-> 0,
   last_check |-> None]
InitialPerfStat ==
  [response_times |-> <<>>, avg_response_time |-> Pct(0, 1),
   min_response_time |-> Inf, max_response_time |-> 0]

\* Variant of _update_statistics that counts only DOWN results as failed.
_update_statistics_DownOnlyFails(monitor_name, result) ==
  LET uptime_stat == IF monitor_name \in DOMAIN uptime_stats
                     THEN uptime_stats[monitor_name]
                     ELSE InitialUptimeStat
      perf_stat == IF monitor_name \in DOMAIN performance_stats
                   THEN performance_stats[monitor_name]
                   ELSE InitialPerfStat
      response_times ==
        LastN(Append(perf_stat.response_times, result.response_time),
              RingCapacity)
  IN /\ uptime_stats' = Put(uptime_stats, monitor_name,
          [total_checks |-> uptime_stat.total_checks + 1,
           successful_checks |-> uptime_stat.successful_checks
                                 + (IF result.status = UP THEN 1 ELSE 0),
           failed_checks |-> uptime_stat.failed_checks
                             + (IF result.status = DOWN THEN 1 ELSE 0),
           last_check |-> result.timestamp])
     /\ performance_stats' = Put(performance_stats, monitor_name,
          IF Truthy(result.response_time)
          THEN [response_times |-> response_times,
                avg_response_time |->
                  Pct(Sum(response_times), Len(response_times)),
                min_response_time |->
                  Min2(perf_stat.min_response_time, result.response_time),
                max_response_time |->
                  Max2(perf_stat.max_response_time, result.response_time)]
          ELSE perf_stat)

_update_statistics(monitor_name, result) ==
  LET uptime_stat == IF monitor_name \in DOMAIN uptime_stats
                     THEN uptime_stats[monitor_name]
                     ELSE InitialUptimeStat
      perf_stat == IF monitor_name \in DOMAIN performance_stats
                   THEN performance_stats[monitor_name]
                   ELSE InitialPerfStat
      response_times ==
        LastN(Append(perf_stat.response_times, result.response_time),
              RingCapacity)
  IN /\ uptime_stats' = Put(uptime_stats, monitor_name,
          [total_checks |-> uptime_stat.total_checks + 1,
           successful_checks |-> uptime_stat.successful_checks
                                 + (IF result.status = UP THEN 1 ELSE 0),
           failed_checks |-> uptime_stat.failed_checks
                             + (IF result.status = UP THEN 0 ELSE 1),
           last_check |-> result.timestamp])
     /\ performance_stats' = Put(performance_stats, monitor_name,
          IF Truthy(result.response_time)
          THEN [response_times |-> response_times,
                avg_response_time |->
                  Pct(Sum(response_times), Len(response_times)),
                min_response_time |->
                  Min2(perf_stat.min_response_time, result.response_time),
                max_response_time |->
                  Max2(perf_stat.max_response_time, result.response_time)]
          ELSE perf_stat)

\* -------------------------------------------------------------- retention
\* Variant of _cleanup_old_results that also drops the result at the cutoff.
_cleanup_old_results_DropsCutoff ==
  LET cutoff_time == now - DAY
      Recent(r) == r.timestamp > cutoff_time
  IN monitor_results' =
       [m \in DOMAIN monitor_results |-> SelectSeq(monitor_results[m], Recent)]

_cleanup_old_results ==
  LET cutoff_time == now - DAY
      Recent(r) == r.timestamp >= cutoff_time
  IN monitor_results' =
       [m \in DOMAIN monitor_results |-> SelectSeq(monitor_results[m], Recent)]

\* ----------------------------------------------------------------- report
\* Variant of SumRates that counts one violation per monitor and kind.
RECURSIVE SumRates_OncePerKind(_)
SumRates_OncePerKind(vs) ==
  IF vs = <<>> THEN 0
  ELSE LET v == Head(vs)
           Other(w) == \/ w.monitor_name # v.monitor_name
                       \/ w.sla_type # v.sla_type
       IN v.compensation_rate + SumRates_OncePerKind(SelectSeq(Tail(vs), Other))

\* sum(v['compensation_rate'] for v in vs)
RECURSIVE SumRates(_)
SumRates(vs) ==
  IF vs = <<>> THEN 0 ELSE Head(vs).compensation_rate + SumRates(Tail(vs))

NoReport == [report_period |-> "none"]

\* Variant of generate_sla_report that holds the uptime against the violation
\* threshold.
generate_sla_report_ViolationThreshold(period) ==
  LET uptime_target == sla_thresholds["uptime"].target_value
      response_target == sla_thresholds["api_response_time"].target_value
      monitor_report(monitor_name) ==
        LET uptime_percentage ==
              _calculate_uptime_percentage(monitor_name, period)
            base ==
              [uptime_percentage |-> uptime_percentage,
               sla_target |-> uptime_target,
               sla_compliant |->
                 PctAtLeast(uptime_percentage,
                            sla_thresholds["uptime"].violation_threshold),
               total_checks |->
                 IF monitor_name \in DOMAIN uptime_stats
                 THEN uptime_stats[monitor_name].total_checks ELSE 0,
               failed_checks |->
                 IF monitor_name \in DOMAIN uptime_stats
                 THEN uptime_stats[monitor_name].failed_checks ELSE 0]
        IN IF monitor_name \in DOMAIN performance_stats
           THEN LET avg == performance_stats[monitor_name].avg_response_time
                IN base @@
                   [avg_response_time |-> avg,
                    response_time_sla_target |-> response_target,
                    response_time_compliant |->
                      avg.num <= response_target * avg.den]
           ELSE base
      period_start == now - (IF period = "monthly" THEN MONTH ELSE DAY)
      InPeriod(v) == v.timestamp >= period_start
      listed == SelectSeq(sla_violations, InPeriod)
      by_monitor == [m \in DOMAIN monitors |-> monitor_report(m)]
  IN [report_period |-> period,
      generated_at |-> now,
      monitors |-> by_monitor,
      sla_violations |-> listed,
      overall_compliance |->
        [compliant |-> \A m \in DOMAIN by_monitor : by_monitor[m].sla_compliant,
         violation_count |-> Len(listed),
         compensation_owed |-> SumRates(listed)]]

generate_sla_report(period) ==
  LET uptime_target == sla_thresholds["uptime"].target_value
      response_target == sla_thresholds["api_response_time"].target_value
      monitor_report(monitor_name) ==
        LET uptime_percentage ==
              _calculate_uptime_percentage(monitor_name, period)
            base ==
              [uptime_percentage |-> uptime_percentage,
               sla_target |-> uptime_target,
               sla_compliant |-> PctAtLeast(uptime_percentage, uptime_target),
               total_checks |->
                 IF monitor_name \in DOMAIN uptime_stats
                 THEN uptime_stats[monitor_name].total_checks ELSE 0,
               failed_checks |->
                 IF monitor_name \in DOMAIN uptime_stats
                 THEN uptime_stats[monitor_name].failed_checks ELSE 0]
        IN IF monitor_name \in DOMAIN performance_stats
           THEN LET avg == performance_stats[monitor_name].avg_response_time
                IN base @@
                   [avg_response_time |-> avg,
                    response_time_sla_target |-> response_target,
                    response_time_compliant |->
                      avg.num <= response_target * avg.den]
           ELSE base
      period_start == now - (IF period = "monthly" THEN MONTH ELSE DAY)
      InPeriod(v) == v.timestamp >= period_start
      listed == SelectSeq(sla_violations, InPeriod)
      by_monitor == [m \in DOMAIN monitors |-> monitor_report(m)]
  IN [report_period |-> period,
      generated_at |-> now,
      monitors |-> by_monitor,
      sla_violations |-> listed,
      overall_compliance |->
        [compliant |-> \A m \in DOMAIN by_monitor : by_monitor[m].sla_compliant,
         violation_count |-> Len(listed),
         compensation_owed |-> SumRates(listed)]]

\* ------------------------------------------------- GDPR consent management
\* The clock values up to which consent calls are followed.
MaxTime == 2

\* Strings the consent id is built from are sequences of characters, so that
\* f"{user_id}:{purpose}" is the concatenation it is.
Format(user_id, purpose) == user_id \o <<":">> \o purpose

\* hashlib.sha256(text.encode()).hexdigest()[:16]: equal for equal texts,
\* and taken to differ for different texts.
sha256_16(text) == [sha256 |-> text]

_generate_consent_id(user_id, purpose) == sha256_16(Format(user_id, purpose))

\* datetime.isoformat() and datetime.fromisoformat() of a naive datetime,
\* and the None stored in place of a missing date.
isoformat(t) == [date |-> "iso", at |-> t]
fromisoformat(text) == text.at
NoDate == [date |-> "None"]

NoCall == [call |-> "none"]
NeverRecorded ==
  [recorded |-> FALSE, consent_given |-> FALSE, expiry_date |-> None,
   withdrawn |-> FALSE]

\* The calls the engine is given: two (user, purpose) pairs whose formatted
\* text is the same, "u:p:q", and a pair with a text of its own.
ConsentPairs ==
  {<<<<"u">>, <<"p", ":", "q">>>>, <<<<"u", ":", "p">>, <<"q">>>>,
   <<<<"u">>, <<"q">>>>}
LegalBases == {"consent"}
ExpiryDates == {None, 1}

\* GDPREngine.__init__
GDPREngine_init ==
  /\ consent_records = EmptyDict
  /\ returned = NoCall
  /\ consent_history = [pair \in ConsentPairs |-> NeverRecorded]

record_consent(user_id, purpose, legal_basis, consent_given, expiry_date) ==
  LET consent_id == _generate_consent_id(user_id, purpose)
      consent_record ==
        [consent_id |-> consent_id,
         user_id |-> user_id,
         purpose |-> purpose,
         legal_basis |-> legal_basis,
         consent_given |-> consent_given,
         timestamp |-> isoformat(now),
         expiry_date |-> IF expiry_date # None
                         THEN isoformat(expiry_date) ELSE NoDate,
         ip_address |-> NoDate,
         user_agent |-> NoDate]
  IN /\ consent_records' = Put(consent_records, consent_id, consent_record)
     /\ returned' = [call |-> "record_consent", user_id |-> user_id,
                     purpose |-> purpose, value |-> consent_id]

withdraw_consent(user_id, purpose) ==
  LET consent_id == _generate_consent_id(user_id, purpose)
  IN IF consent_id \in DOMAIN consent_records
     THEN /\ consent_records' =
               Put(consent_records, consent_id,
                   Put(Put(consent_records[consent_id],
                           "consent_given", FALSE),
                       "withdrawal_timestamp", isoformat(now)))
          /\ returned' = [call |-> "withdraw_consent", user_id |-> user_id,
                          purpose |-> purpose, value |-> TRUE]
     ELSE /\ consent_records' = consent_records
          /\ returned' = [call |-> "withdraw_consent", user_id |-> user_id,
                          purpose |-> purpose, value |-> FALSE]

check_consent_validity(user_id, purpose) ==
  LET consent_id == _generate_consent_id(user_id, purpose)
  IN IF consent_id \notin DOMAIN consent_records
     THEN FALSE
     ELSE LET record == consent_records[consent_id]
          IN IF ~record.consent_given
             THEN FALSE
             ELSE IF /\ record.expiry_date # NoDate
                     /\ now > fromisoformat(record.expiry_date)
                  THEN FALSE
                  ELSE TRUE

\* ------------------------------------------------------------------- init
\* __init__ followed by the call of start_monitoring(check_interval).
InitState(intervals, sla_configs, monitor_configs, channel_configs) ==
  /\ now = 0
  /\ check_interval \in intervals
  /\ \E sla_config \in sla_configs :
       sla_thresholds = _load_sla_thresholds(sla_config)
  /\ monitors \in monitor_configs
  /\ alert_channels \in channel_configs
  /\ pc = "tick"
  /\ ticks = 0
  /\ pending = {}
  /\ results = EmptyDict
  /\ idx = 1
  /\ monitor_results = EmptyDict
  /\ current_incidents = EmptyDict
  /\ sla_violations = <<>>
  /\ uptime_stats = EmptyDict
  /\ performance_stats = EmptyDict
  /\ alerts = <<>>
  /\ report = NoReport
  /\ seen = [m \in MonitorNames |-> <<>>]
  /\ opened = [m \in MonitorNames |-> 0]
  /\ resolved = [m \in MonitorNames |-> 0]
  /\ pruned = 0
  /\ tick_start = 0
  /\ GDPREngine_init

\* The default monitors and no alert channel (config.get('alert_channels',
\* [])).
InitWith(intervals, sla_configs) ==
  InitState(intervals, sla_configs, {DefaultMonitors}, {<<>>})

\* ---------------------------------------------------------------- actions
\* Top of the while loop: one probe task per configured monitor.
StartTick ==
  /\ pc = "tick"
  /\ ticks < MaxTicks
  /\ ticks' = ticks + 1
  /\ pending' = DOMAIN monitors
  /\ results' = EmptyDict
  /\ pc' = IF pending' = {} THEN "cleanup" ELSE "gather"
  /\ tick_start' = now
  /\ UNCHANGED <<consent, now, check_interval, sla_thresholds, monitors,
                 alert_channels, idx, engine, alerts, report, seen, opened,
                 resolved, pruned>>

\* One probe task ends, `duration` after the previous event; gather returns
\* once all of them have ended.
ProbeComplete(monitor_name, outcome, duration) ==
  /\ pc = "gather"
  /\ monitor_name \in pending
  /\ now' = now + duration
  /\ results' = Put(results, monitor_name,
                    TaskResult(monitor_name, outcome, now'))
  /\ pending' = pending \ {monitor_name}
  /\ pc' = IF pending' = {} THEN "process" ELSE "gather"
  /\ idx' = 1
  /\ UNCHANGED <<consent, check_interval, sla_thresholds, monitors, alert_channels,
                 ticks, engine, alerts, report, seen, opened, resolved,
                 pruned, tick_start>>

\* The for loop of start_monitoring moves to the next result, or ends.
NextResult ==
  IF idx < Len(MonitorOrder)
  THEN idx' = idx + 1 /\ pc' = "process"
  ELSE idx' = idx /\ pc' = "cleanup"

\* gather handed back an exception for this monitor: it is logged and the
\* for loop continues.
TaskFailed ==
  /\ pc = "process"
  /\ IsException(cur_result)
  /\ NextResult
  /\ UNCHANGED <<consent, now, check_interval, sla_thresholds, monitors,
                 alert_channels, ticks, pending, results, engine, alerts,
                 report, seen, opened, resolved, pruned, tick_start>>

\* The result is stored and _process_monitor_result runs to its first await.
ProcessResult ==
  /\ pc = "process"
  /\ IsMonitorResult(cur_result)
  /\ monitor_results' =
       Put(monitor_results, cur_monitor,
           Append(IF cur_monitor \in DOMAIN monitor_results
                  THEN monitor_results[cur_monitor] ELSE <<>>, cur_result))
  /\ seen' = [seen EXCEPT ![cur_monitor] = Append(@, cur_result)]
  /\ _process_monitor_result(cur_monitor, cur_result)
  /\ UNCHANGED <<consent, now, check_interval, sla_thresholds, monitors,
                 alert_channels, ticks, pending, results, idx, sla_violations,
                 uptime_stats, performance_stats, report, resolved, pruned,
                 tick_start>>

\* The probe returned None: it is stored like a result, result.status in
\* _process_monitor_result raises AttributeError, and the except clause of
\* the while loop logs it.
ProcessResultRaises ==
  /\ pc = "process"
  /\ cur_result = NoneResult
  /\ monitor_results' =
       Put(monitor_results, cur_monitor,
           Append(IF cur_monitor \in DOMAIN monitor_results
                  THEN monitor_results[cur_monitor] ELSE <<>>, cur_result))
  /\ pc' = "error_sleep"
  /\ UNCHANGED <<consent, now, check_interval, sla_thresholds, monitors,
                 alert_channels, ticks, pending, results, idx,
                 current_incidents, sla_violations, uptime_stats,
                 performance_stats, alerts, report, seen, opened, resolved,
                 pruned, tick_start>>

\* The await of the opening alert ends: _handle_incident goes on, or the
\* exception that left _send_alert reaches the except clause of the loop.
IncidentAlertSent ==
  /\ pc = "incident_alert"
  /\ _send_alert_returns
  /\ IF Last(alerts').raised
     THEN pc' = "error_sleep" /\ UNCHANGED current_incidents
     ELSE _handle_incident_sent(cur_monitor) /\ pc' = "check_uptime"
  /\ UNCHANGED <<consent, now, check_interval, sla_thresholds, monitors,
                 alert_channels, ticks, pending, results, idx,
                 monitor_results, sla_violations, uptime_stats,
                 performance_stats, report, seen, opened, resolved, pruned,
                 tick_start>>

\* The await of the resolution alert ends, likewise.
ResolveAlertSent ==
  /\ pc = "resolve_alert"
  /\ _send_alert_returns
  /\ IF Last(alerts').raised
     THEN pc' = "error_sleep" /\ UNCHANGED <<current_incidents, resolved>>
     ELSE /\ _resolve_incident_archive(cur_monitor, cur_result)
          /\ pc' = "check_uptime"
  /\ UNCHANGED <<consent, now, check_interval, sla_thresholds, monitors,
                 alert_channels, ticks, pending, results, idx,
                 monitor_results, sla_violations, uptime_stats,
                 performance_stats, report, seen, opened, pruned,
                 tick_start>>

\* The step of a _check_sla_violations half leads to `next`, or to the
\* except clause of the loop when its alert raised.
AfterSLAAlert(next) ==
  IF alerts' # alerts /\ Last(alerts').raised THEN "error_sleep" ELSE next

CheckUptimeSLA ==
  /\ pc = "check_uptime"
  /\ _check_sla_violations_uptime(cur_monitor, cur_result)
  /\ pc' = AfterSLAAlert("check_response_time")
  /\ UNCHANGED <<consent, now, check_interval, sla_thresholds, monitors,
                 alert_channels, ticks, pending, results, idx,
                 monitor_results, current_incidents, uptime_stats,
                 performance_stats, report, seen, opened, resolved, pruned,
                 tick_start>>

CheckResponseTimeSLA ==
  /\ pc = "check_response_time"
  /\ _check_sla_violations_response_time(cur_monitor, cur_result)
  /\ pc' = AfterSLAAlert("update_statistics")
  /\ UNCHANGED <<consent, now, check_interval, sla_thresholds, monitors,
                 alert_channels, ticks, pending, results, idx,
                 monitor_results, current_incidents, uptime_stats,
                 performance_stats, report, seen, opened, resolved, pruned,
                 tick_start>>

\* _update_statistics, then the for loop moves to the next result.
UpdateStatistics ==
  /\ pc = "update_statistics"
  /\ _update_statistics(cur_monitor, cur_result)
  /\ NextResult
  /\ UNCHANGED <<consent, now, check_interval, sla_thresholds, monitors,
                 alert_channels, ticks, pending, results, monitor_results,
                 current_incidents, sla_violations, alerts, report, seen,
                 opened, resolved, pruned, tick_start>>

\* Some stored list holds a None, on which r.timestamp raises.
HoldsNone ==
  \E m \in DOMAIN monitor_results :
    \E i \in 1..Len(monitor_results[m]) : monitor_results[m][i] = NoneResult

\* _cleanup_old_results raises AttributeError on a stored None before it
\* assigns self.monitor_results; the except clause of the loop logs it.
CleanupRaises ==
  /\ pc = "cleanup"
  /\ HoldsNone
  /\ pc' = "error_sleep"
  /\ UNCHANGED <<consent, now, check_interval, sla_thresholds, monitors,
                 alert_channels, ticks, pending, results, idx, engine, alerts,
                 report, seen, opened, resolved, pruned, tick_start>>

Cleanup ==
  /\ pc = "cleanup"
  /\ ~HoldsNone
  /\ _cleanup_old_results
  /\ pruned' = ticks
  /\ pc' = "sleep"
  /\ UNCHANGED <<consent, now, check_interval, sla_thresholds, monitors,
                 alert_channels, ticks, pending, results, idx,
                 current_incidents, sla_violations, uptime_stats,
                 performance_stats, alerts, report, seen, opened, resolved,
                 tick_start>>

\* await asyncio.sleep(check_interval)
Sleep ==
  /\ pc = "sleep"
  /\ now' = now + check_interval
  /\ pc' = "tick"
  /\ UNCHANGED <<consent, check_interval, sla_thresholds, monitors, alert_channels,
                 ticks, pending, results, idx, engine, alerts, report, seen,
                 opened, resolved, pruned, tick_start>>

\* Variant of ErrorSleep in which the exception ends the loop.
ErrorSleep_Stops ==
  /\ pc = "error_sleep"
  /\ pc' = "stopped"
  /\ UNCHANGED <<consent, now, check_interval, sla_thresholds, monitors,
                 alert_channels, ticks, pending, results, idx, engine, alerts,
                 report, seen, opened, resolved, pruned, tick_start>>

\* The except clause of the while loop: await asyncio.sleep(check_interval)
ErrorSleep ==
  /\ pc = "error_sleep"
  /\ now' = now + check_interval
  /\ pc' = "tick"
  /\ UNCHANGED <<consent, check_interval, sla_thresholds, monitors, alert_channels,
                 ticks, pending, results, idx, engine, alerts, report, seen,
                 opened, resolved, pruned, tick_start>>

\* _send_alert suspends the loop when its loop over the channels gets to a
\* Slack channel with a webhook_url: the request is the only await in it.
SendAlertSuspends ==
  \E i \in 1..Len(alert_channels) :
    /\ \A j \in 1..i : "type" \in DOMAIN alert_channels[j]
    /\ alert_channels[i].type = "slack"
    /\ "webhook_url" \in DOMAIN alert_channels[i]

\* The loop is suspended at one of its awaits.
Suspended ==
  \/ pc \in {"gather", "sleep", "error_sleep"}
  \/ pc \in {"incident_alert", "resolve_alert"} /\ SendAlertSuspends

\* The task running start_monitoring is cancelled: CancelledError is
\* raised at the await the loop is suspended at, and no except clause of
\* the loop catches it.
Cancel ==
  /\ Suspended
  /\ pc' = "cancelled"
  /\ UNCHANGED <<consent, now, check_interval, sla_thresholds, monitors,
                 alert_channels, ticks, pending, results, idx, engine, alerts,
                 report, seen, opened, resolved, pruned, tick_start>>

\* Variant of GenerateReport that hands the recorded violations over to the
\* report and empties the log.
GenerateReport_DrainsLog(period) ==
  /\ Suspended
  /\ report' = generate_sla_report(period)
  /\ sla_violations' = <<>>
  /\ UNCHANGED <<consent, now, check_interval, sla_thresholds, monitors,
                 alert_channels, pc, ticks, pending, results, idx,
                 monitor_results, current_incidents, uptime_stats,
                 performance_stats, alerts, seen, opened, resolved, pruned,
                 tick_start>>

\* A caller asks for a report while the loop is suspended.
GenerateReport(period) ==
  /\ Suspended
  /\ report' = generate_sla_report(period)
  /\ UNCHANGED <<consent, now, check_interval, sla_thresholds, monitors,
                 alert_channels, pc, ticks, pending, results, idx, engine,
                 alerts, seen, opened, resolved, pruned, tick_start>>

\* ----------------------------------------------------- GDPR engine calls
RecordConsent(user_id, purpose, legal_basis, consent_given, expiry_date) ==
  /\ record_consent(user_id, purpose, legal_basis, consent_given, expiry_date)
  /\ consent_history' =
       [consent_history EXCEPT ![<<user_id, purpose>>] =
          [recorded |-> TRUE, consent_given |-> consent_given,
           expiry_date |-> expiry_date, withdrawn |-> FALSE]]
  /\ UNCHANGED <<now, monitoring>>

WithdrawConsent(user_id, purpose) ==
  /\ withdraw_consent(user_id, purpose)
  /\ consent_history' =
       [consent_history EXCEPT ![<<user_id, purpose>>].withdrawn = TRUE]
  /\ UNCHANGED <<now, monitoring>>

CheckConsentValidity(user_id, purpose) ==
  /\ returned' = [call |-> "check_consent_validity", user_id |-> user_id,
                  purpose |-> purpose,
                  value |-> check_consent_validity(user_id, purpose)]
  /\ UNCHANGED <<now, monitoring, consent_records, consent_history>>

\* Time passes between two calls.
TimePasses ==
  /\ now < MaxTime
  /\ now' = now + 1
  /\ UNCHANGED <<monitoring, consent>>

\* ---------------------------------------------------------- specifications
Loop(outcomes, durations) ==
  \/ StartTick
  \/ \E m \in MonitorNames, o \in outcomes, d \in durations :
       ProbeComplete(m, o, d)
  \/ ProcessResult
  \/ IncidentAlertSent
  \/ ResolveAlertSent
  \/ CheckUptimeSLA
  \/ CheckResponseTimeSLA
  \/ UpdateStatistics
  \/ Cleanup
  \/ Sleep

\* The incident specification: every status, ticks less than a second and
\* more than a second apart.
IncidentOutcomes ==
  {Response(200, 100), Response(200, 600), Response(500, 100), Timeout}
Init == InitWith({0, 1}, {EmptyDict})
Next == Loop(IncidentOutcomes, {0})
Spec == Init /\ [][Next]_vars

\* The uptime specification: ticks an hour apart, the default thresholds and
\* an override of the uptime threshold (violated below 50%, measured hourly).
UptimeOutcomes == {Response(200, 100), Response(200, 600), Timeout}
UptimeOverride ==
  [uptime |-> [violation_threshold |-> 500, measurement_period |-> "hourly"]]
InitUptime == InitWith({HOUR}, {EmptyDict, UptimeOverride})
NextUptime == Loop(UptimeOutcomes, {0})
SpecUptime == InitUptime /\ [][NextUptime]_vars

\* The response-time specification: latencies of 0 ms, at the default
\* threshold, and above it; the default thresholds and overrides of the
\* response-time threshold.
ResponseTimeOutcomes ==
  {Response(200, 0), Response(200, 500), Response(200, 600), Timeout}
ResponseTimeOverride(ms) == [api_response_time |-> [violation_threshold |-> ms]]
InitResponseTime ==
  InitWith({1}, {EmptyDict, ResponseTimeOverride(0), ResponseTimeOverride(600)})
NextResponseTime == Loop(ResponseTimeOutcomes, {0})
SpecResponseTime == InitResponseTime /\ [][NextResponseTime]_vars

\* The report specification: ticks a day apart, reports asked for while the
\* loop is suspended.
Periods == {"hourly", "daily", "monthly"}
ReportOutcomes == {Response(200, 600), Timeout}
InitReport == InitWith({DAY}, {EmptyDict})
NextReport ==
  \/ Loop(ReportOutcomes, {0})
  \/ \E period \in Periods : GenerateReport(period)
SpecReport == InitReport /\ [][NextReport]_vars

\* The retention specification: the interval is one half-second less than,
\* equal to, or one half-second more than the 24 hours of retention, so that
\* pruning meets results just inside, exactly at and just outside the cutoff.
RetentionIntervals == {DAY - 1, DAY, DAY + 1}
InitRetention == InitWith(RetentionIntervals, {EmptyDict})
NextRetention == Loop(ReportOutcomes, {0})
SpecRetention == InitRetention /\ [][NextRetention]_vars

\* The ring specification: start_monitoring is called on an engine that has
\* already run RingCapacity ticks, two days apart, in which every probe of
\* every monitor came back UP: the first of them with a latency of its own,
\* the others after RingSample milliseconds. Every latency ring is full, and
\* its oldest sample is the next one to leave it. The history holds the
\* last result only, the earlier ones were pruned.
RingInterval == 2 * DAY
RingSample == 100
RingOldest == {50, 100, 200}
RingOutcomes == {Response(200, 100), Timeout}
EarlierResult(i, oldest) ==
  MonitorResult((i - 1) * RingInterval, UP,
                IF i = 1 THEN oldest ELSE RingSample, expected_status, NoError)
InitRing ==
  \E oldest \in RingOldest :
    LET earlier == [i \in 1..RingCapacity |-> EarlierResult(i, oldest)]
        response_times == [i \in 1..RingCapacity |-> earlier[i].response_time]
    IN /\ now = RingCapacity * RingInterval
       /\ check_interval = RingInterval
       /\ sla_thresholds = _load_sla_thresholds(EmptyDict)
       /\ monitors = DefaultMonitors
       /\ alert_channels = <<>>
       /\ pc = "tick"
       /\ ticks = 0
       /\ pending = {}
       /\ results = EmptyDict
       /\ idx = 1
       /\ monitor_results = [m \in MonitorNames |-> <<Last(earlier)>>]
       /\ current_incidents = EmptyDict
       /\ sla_violations = <<>>
       /\ uptime_stats =
            [m \in MonitorNames |->
               [total_checks |-> RingCapacity,
                successful_checks |-> RingCapacity,
                failed_checks |-> 0,
                last_check |-> Last(earlier).timestamp]]
       /\ performance_stats =
            [m \in MonitorNames |->
               [response_times |-> response_times,
                avg_response_time |->
                  Pct(Sum(response_times), Len(response_times)),
                min_response_time |-> Min2(oldest, RingSample),
                max_response_time |-> Max2(oldest, RingSample)]]
       /\ alerts = <<>>
       /\ report = NoReport
       /\ seen = [m \in MonitorNames |-> earlier]
       /\ opened = [m \in MonitorNames |-> 0]
       /\ resolved = [m \in MonitorNames |-> 0]
       /\ pruned = 0
       /\ tick_start = now - RingInterval
       /\ GDPREngine_init
NextRing == Loop(RingOutcomes, {0})
SpecRing == InitRing /\ [][NextRing]_vars

\* The compliance specification: reports of an engine whose uptime target is
\* the default, or one that the uptime over a few results can meet exactly
\* (50%) or miss while staying above the violation threshold (60% against
\* 40%); with the default monitors, and with no monitor configured.
UptimeTargetOverride(tenths) ==
  [uptime |-> [target_value |-> tenths, violation_threshold |-> 400]]
InitCompliance ==
  InitState({DAY},
            {EmptyDict, UptimeTargetOverride(500), UptimeTargetOverride(600)},
            {DefaultMonitors, EmptyDict}, {<<>>})
ComplianceOutcomes == {Response(200, 100), Timeout}
NextCompliance ==
  \/ Loop(ComplianceOutcomes, {0})
  \/ \E period \in Periods : GenerateReport(period)
SpecCompliance == InitCompliance /\ [][NextCompliance]_vars

\* The concurrent-report specification: a Slack channel is configured, so
\* that the loop is also suspended while an incident or recovery alert is
\* on its way, and daily reports are asked for at every suspension.
InitReportAlert ==
  InitState({DAY}, {EmptyDict}, {DefaultMonitors}, {<<SlackChannel>>})
NextReportAlert ==
  \/ Loop(ComplianceOutcomes, {0})
  \/ GenerateReport("daily")
SpecReportAlert == InitReportAlert /\ [][NextReportAlert]_vars

\* The dense specification: start_monitoring is called on an engine that has
\* already run 498 or 499 ticks, a minute apart, in which every probe came
\* back UP after DenseSample milliseconds. All these results are less than
\* 24 hours old and still in the history, so that the next results are the
\* 499th to 502nd of the uptime window.
DenseInterval == 60 * SECOND
DenseSample == 100
DenseEarlier == {498, 499}
DenseOutcomes == {Response(200, 100), Timeout}
InitDense ==
  \E count \in DenseEarlier :
    LET earlier ==
          [i \in 1..count |->
             MonitorResult((i - 1) * DenseInterval, UP, DenseSample,
                           expected_status, NoError)]
        response_times == [i \in 1..count |-> earlier[i].response_time]
    IN /\ now = count * DenseInterval
       /\ check_interval = DenseInterval
       /\ sla_thresholds = _load_sla_thresholds(EmptyDict)
       /\ monitors = DefaultMonitors
       /\ alert_channels = <<>>
       /\ pc = "tick"
       /\ ticks = 0
       /\ pending = {}
       /\ results = EmptyDict
       /\ idx = 1
       /\ monitor_results = [m \in MonitorNames |-> earlier]
       /\ current_incidents = EmptyDict
       /\ sla_violations = <<>>
       /\ uptime_stats =
            [m \in MonitorNames |->
               [total_checks |-> count,
                successful_checks |-> count,
                failed_checks |-> 0,
                last_check |-> Last(earlier).timestamp]]
       /\ performance_stats =
            [m \in MonitorNames |->
               [response_times |-> response_times,
                avg_response_time |->
                  Pct(Sum(response_times), Len(response_times)),
                min_response_time |-> DenseSample,
                max_response_time |-> DenseSample]]
       /\ alerts = <<>>
       /\ report = NoReport
       /\ seen = [m \in MonitorNames |-> earlier]
       /\ opened = [m \in MonitorNames |-> 0]
       /\ resolved = [m \in MonitorNames |-> 0]
       /\ pruned = 0
       /\ tick_start = now - DenseInterval
       /\ GDPREngine_init
NextDense == Loop(DenseOutcomes, {0})
SpecDense == InitDense /\ [][NextDense]_vars

\* The threshold specification: the override map is empty, overrides fields
\* of a default, adds a threshold under a new name, or does both.
NewThreshold ==
  [queue_depth |->
     [name |-> "Queue Depth", target_value |-> 10,
      measurement_unit |-> "messages", measurement_period |-> "hourly",
      violation_threshold |-> 20, compensation_rate |-> 1]]
LatencyOverride ==
  [api_response_time |-> [target_value |-> 300, compensation_rate |-> 7]]
ThresholdConfigs ==
  {EmptyDict, UptimeOverride, LatencyOverride, NewThreshold,
   NewThreshold @@ LatencyOverride}
ThresholdOutcomes == {Response(200, 600), Timeout}
InitThresholds == InitWith({HOUR}, ThresholdConfigs)
NextThresholds == Loop(ThresholdOutcomes, {0})
SpecThresholds == InitThresholds /\ [][NextThresholds]_vars

\* The breach specification: the override map is empty, tightens the
\* violation threshold of the latency SLA to 150 ms and leaves its target at
\* the default of 200 ms, or lowers the uptime target to 50% and leaves the
\* violation threshold at the default of 99.8%; probes answer after 180 ms
\* or time out.
UptimeTargetOnly == [uptime |-> [target_value |-> 500]]
BreachConfigs == {EmptyDict, ResponseTimeOverride(150), UptimeTargetOnly}
BreachOutcomes == {Response(200, 180), Timeout}
InitBreach == InitWith({HOUR}, BreachConfigs)
NextBreach == Loop(BreachOutcomes, {0})
SpecBreach == InitBreach /\ [][NextBreach]_vars

\* The consent specification: calls of record_consent, withdraw_consent and
\* check_consent_validity in any order, for the pairs of ConsentPairs, with
\* time passing in between; the uptime monitor is constructed and idle.
InitConsent == InitWith({1}, {EmptyDict})
NextConsent ==
  \/ \E pair \in ConsentPairs, legal_basis \in LegalBases,
        consent_given \in BOOLEAN, expiry_date \in ExpiryDates :
       RecordConsent(pair[1], pair[2], legal_basis, consent_given, expiry_date)
  \/ \E pair \in ConsentPairs : WithdrawConsent(pair[1], pair[2])
  \/ \E pair \in ConsentPairs : CheckConsentValidity(pair[1], pair[2])
  \/ TimePasses
SpecConsent == InitConsent /\ [][NextConsent]_vars

\* The fault specification: a monitor configured with a method that is
\* neither GET nor POST, probe tasks that end with an exception, and
\* cancellation of the loop.
HeadFirst ==
  [m \in MonitorNames |->
     IF m = "api"
     THEN [method |-> "HEAD", expected_response_time |-> 550]
     ELSE [method |-> "POST", expected_response_time |-> 550]]
HeadLast ==
  [m \in MonitorNames |->
     IF m = "api"
     THEN [method |-> "GET", expected_response_time |-> 550]
     ELSE [method |-> "HEAD", expected_response_time |-> 5000]]
FaultOutcomes ==
  {Response(200, 100), Response(200, 600), Response(500, 100), Timeout, Raised}
InitFaults ==
  InitState({1}, {EmptyDict}, {DefaultMonitors, HeadFirst, HeadLast}, {<<>>})
LoopFaults ==
  \/ Loop(FaultOutcomes, {0})
  \/ TaskFailed
  \/ ProcessResultRaises
  \/ CleanupRaises
  \/ ErrorSleep
NextFaults == LoopFaults \/ Cancel
SpecFaults == InitFaults /\ [][NextFaults]_vars

\* The alert specification: two alert channels, the first one failing (no
\* email method exists) or without a 'type' key, the second a Slack webhook
\* that answers 200 or 500; cancellation of the loop.
AlertOutcomes == {Response(200, 100), Timeout}
AlertChannelConfigs ==
  {<<EmailChannel, SlackChannel>>, <<UntypedChannel, SlackChannel>>}
InitAlert ==
  InitState({1}, {EmptyDict}, {DefaultMonitors}, AlertChannelConfigs)
NextAlert ==
  \/ Loop(AlertOutcomes, {0})
  \/ ErrorSleep
  \/ Cancel
SpecAlert == InitAlert /\ [][NextAlert]_vars

\* The restart specification: ticks that end in the except clause of the
\* loop, because the last monitor's probe returns None or because the only
\* alert channel has no 'type' key.  The loop's own steps are weakly fair:
\* every await of the loop ends (a probe is bound by its timeout, a sleep by
\* its delay); cancellation may or may not come.
RestartOutcomes == {Response(200, 100), Timeout}
InitRestart ==
  \/ InitState({1}, {EmptyDict}, {HeadLast}, {<<>>})
  \/ InitState({1}, {EmptyDict}, {DefaultMonitors}, {<<UntypedChannel>>})
LoopRestart ==
  \/ Loop(RestartOutcomes, {0})
  \/ ProcessResultRaises
  \/ ErrorSleep
NextRestart == LoopRestart \/ Cancel
SpecRestart == InitRestart /\ [][NextRestart]_vars /\ WF_vars(LoopRestart)

\* The timing specification: ticks one second apart, probes that answer at
\* once and probes that fail after half a second or a second, so that a tick
\* takes less than, exactly, or more than one interval.
SlowDurations == {1, 2}
InitTiming == InitWith({SECOND}, {EmptyDict})
NextTiming ==
  \/ Loop({Response(200, 100)}, {0})
  \/ \E m \in MonitorNames, d \in SlowDurations :
       ProbeComplete(m, TransportError, d)
SpecTiming == InitTiming /\ [][NextTiming]_vars

\* ------------------------------------------------- vocabulary of the claims
Open(m) == m \in DOMAIN current_incidents

\* The loop is inside the processing of a result of monitor m.
Processing(m) ==
  /\ pc \in {"incident_alert", "resolve_alert", "check_uptime",
             "check_response_time", "update_statistics"}
  /\ cur_monitor = m

\* The indices of a sequence that satisfy Test, in increasing order.
Indices(s, Test(_)) ==
  LET positions == [i \in 1..Len(s) |-> i]
  IN SelectSeq(positions, Test)

\* Positions in seen[m] where a maximal run of non-UP results starts, and
\* positions of the UP results that end such a run.
RunStarts(m) ==
  LET Starts(i) == /\ seen[m][i].status # UP
                   /\ (i = 1 \/ seen[m][i - 1].status = UP)
  IN Indices(seen[m], Starts)
RunEnds(m) ==
  LET Ends(i) == /\ seen[m][i].status = UP
                 /\ i > 1
                 /\ seen[m][i - 1].status # UP
  IN Indices(seen[m], Ends)

\* Positions in alerts of the incident alerts of monitor m.
OpeningAlerts(m) ==
  LET Opening(i) == /\ alerts[i].monitor_name = m
                    /\ alerts[i].title \in {<<"Service", DOWN>>,
                                            <<"Service", DEGRADED>>}
  IN Indices(alerts, Opening)
RecoveryAlerts(m) ==
  LET Recovery(i) == /\ alerts[i].monitor_name = m
                     /\ alerts[i].title = <<"Service", "RECOVERED">>
  IN Indices(alerts, Recovery)

\* C1: for every monitor the incident resolutions never exceed the incident
\* openings and are at most one behind; the counts differ by one exactly
\* when an incident is open; once an UP result has gone through incident
\* handling the monitor has no open incident.
C1_IncidentsBalance ==
  \A m \in MonitorNames :
    /\ resolved[m] <= opened[m]
    /\ opened[m] <= resolved[m] + 1
    /\ (opened[m] - resolved[m] = 1) <=> Open(m)
    /\ ( /\ seen[m] # <<>>
         /\ Last(seen[m]).status = UP
         /\ ~(pc = "resolve_alert" /\ cur_monitor = m) ) => ~Open(m)

\* One monitor had an incident opened and then resolved by an UP result;
\* the other is in its second incident, the first one resolved.
C1_Witness ==
  \E m, n \in MonitorNames :
    /\ pc = "sleep"
    /\ opened[m] = 1 /\ resolved[m] = 1 /\ Last(seen[m]).status = UP
    /\ opened[n] = 2 /\ resolved[n] = 1 /\ Open(n)

\* C2: between two processed results a monitor has at most one open incident,
\* and it has one iff the last result processed for it was not UP.
C2_OpenIffLastNotUp ==
  \A m \in MonitorNames :
    ~Processing(m) =>
      /\ opened[m] - resolved[m] <= 1
      /\ Open(m) <=> (seen[m] # <<>> /\ Last(seen[m]).status # UP)

\* Between results, one monitor has an open incident after a DEGRADED result
\* that followed a resolved incident, the other has none after an UP result.
C2_Witness ==
  \E m, n \in MonitorNames :
    /\ pc = "sleep"
    /\ Open(m) /\ Last(seen[m]).status = DEGRADED /\ resolved[m] = 1
    /\ ~Open(n) /\ seen[n] # <<>> /\ Last(seen[n]).status = UP

\* C3: every maximal run of non-UP results of a monitor has exactly one
\* opening alert, dispatched on the first result of the run, CRITICAL when
\* that result is DOWN and WARNING when it is DEGRADED.
C3_OneOpeningAlertPerRun ==
  \A m \in MonitorNames :
    LET starts == RunStarts(m)
        opening == OpeningAlerts(m)
    IN /\ Len(opening) = Len(starts)
       /\ \A j \in 1..Len(opening) :
            LET a == alerts[opening[j]]
                r == seen[m][starts[j]]
            IN /\ a.severity = (IF r.status = DOWN THEN CRITICAL ELSE WARNING)
               /\ a.title = <<"Service", r.status>>
               /\ a.message = r.error_message

\* A run of two non-UP results (DEGRADED, then DOWN) has been processed and
\* carries one WARNING alert.
C3_Witness ==
  \E m \in MonitorNames :
    /\ Len(seen[m]) = 2
    /\ seen[m][1].status = DEGRADED /\ seen[m][2].status = DOWN
    /\ pc = "sleep"
    /\ Len(OpeningAlerts(m)) = 1
    /\ alerts[OpeningAlerts(m)[1]].severity = WARNING

\* C4: an UP result processed while an incident is open dispatches exactly
\* one INFO alert, after the incident's opening alert and with its identity,
\* and the downtime in it is the UP result's timestamp minus the timestamp
\* of the result that opened the incident.
C4_OneRecoveryAlertPerIncident ==
  \A m \in MonitorNames :
    LET starts == RunStarts(m)
        ends == RunEnds(m)
        opening == OpeningAlerts(m)
        recovery == RecoveryAlerts(m)
    IN /\ Len(recovery) = Len(ends)
       /\ \A j \in 1..Len(recovery) :
            LET a == alerts[recovery[j]]
            IN /\ a.severity = INFO
               /\ j <= Len(opening)
               /\ opening[j] < recovery[j]
               /\ a.incident_id = alerts[opening[j]].incident_id
               /\ a.message = seen[m][ends[j]].timestamp
                              - seen[m][starts[j]].timestamp

\* An incident that lasted over two ticks a positive time apart has been
\* resolved.
C4_Witness ==
  \E m \in MonitorNames :
    /\ Len(RecoveryAlerts(m)) = 1
    /\ alerts[RecoveryAlerts(m)[1]].message > 0
    /\ Len(seen[m]) = 3
    /\ seen[m][1].status # UP /\ seen[m][2].status # UP
    /\ pc = "sleep"

\* The closed incidents the engine's state still holds: incident
\* dictionaries carrying resolved = True.  __init__ creates no other
\* container for incidents than current_incidents.
IncidentHistory ==
  {m \in DOMAIN current_incidents :
     /\ "resolved" \in DOMAIN current_incidents[m]
     /\ current_incidents[m].resolved}

RECURSIVE Total(_, _)
Total(count, ms) ==
  IF ms = {} THEN 0
  ELSE LET m == CHOOSE x \in ms : TRUE
       IN count[m] + Total(count, ms \ {m})

\* C5: the incident closed by a resolution is appended to an incident
\* history that stays retrievable from the engine's state: after k
\* resolutions it holds k closed incidents.
C5_ClosedIncidentsKept ==
  Cardinality(IncidentHistory) = Total(resolved, MonitorNames)

\* C6: the incident opened after a resolved incident of the same monitor has
\* an identity different from every earlier incident of that monitor.
C6_NewIdentityAfterResolution ==
  \A m \in MonitorNames :
    LET opening == OpeningAlerts(m)
    IN \A j, k \in 1..Len(opening) :
         j # k => alerts[opening[j]].incident_id
                  # alerts[opening[k]].incident_id

\* ------------------------------------------- vocabulary of the SLA claims
\* The retained results of monitor m.
Retained(m) ==
  IF m \in DOMAIN monitor_results THEN monitor_results[m] ELSE <<>>

PeriodLength(period) ==
  CASE period = "hourly" -> HOUR
    [] period = "daily" -> DAY
    [] period = "monthly" -> MONTH

\* N and K of a window: the retained results of m not older than `length`,
\* and those of them with status UP.
WindowResults(m, length) ==
  {i \in 1..Len(Retained(m)) : Retained(m)[i].timestamp >= now - length}
WindowUps(m, length) ==
  {i \in WindowResults(m, length) : Retained(m)[i].status = UP}

\* The percentage p is the uptime of m over the window: exactly 100 when the
\* window is empty, K/N*100 otherwise.
IsWindowUptime(p, m, length) ==
  LET n == Cardinality(WindowResults(m, length))
      k == Cardinality(WindowUps(m, length))
  IN IF n = 0 THEN p.num = 100 * p.den /\ p.den > 0
     ELSE p.num * n = k * 100 * p.den /\ p.den > 0

\* The uptime of m over the window is strictly below `tenths` tenths of a
\* percent.
WindowUptimeBelow(m, length, tenths) ==
  LET n == Cardinality(WindowResults(m, length))
      k == Cardinality(WindowUps(m, length))
  IN n > 0 /\ k * 1000 < tenths * n

OfType(vs, sla_type) ==
  LET Is(v) == v.sla_type = sla_type IN SelectSeq(vs, Is)
WithSeverity(as, severity) ==
  LET Is(a) == a.severity = severity IN SelectSeq(as, Is)

\* C7: a step appends an uptime SLAViolation and dispatches one EMERGENCY
\* alert iff it is the uptime check of a DOWN result whose uptime (over the
\* 30 days the check computes it for) is strictly below the uptime SLA's
\* violation_threshold; every such result adds its own record.
C7_UptimeViolationIff ==
  [][ LET qualifies ==
            /\ pc = "check_uptime"
            /\ cur_result.status = DOWN
            /\ WindowUptimeBelow(cur_monitor, MONTH,
                                 sla_thresholds["uptime"].violation_threshold)
      IN IF qualifies
         THEN /\ Len(sla_violations') = Len(sla_violations) + 1
              /\ SubSeq(sla_violations', 1, Len(sla_violations))
                 = sla_violations
              /\ Last(sla_violations').sla_type = "uptime"
              /\ Last(sla_violations').monitor_name = cur_monitor
              /\ Last(sla_violations').timestamp = cur_result.timestamp
              /\ Len(alerts') = Len(alerts) + 1
              /\ Last(alerts').severity = EMERGENCY
              /\ Last(alerts').incident_id = Last(sla_violations').violation_id
         ELSE /\ OfType(sla_violations', "uptime")
                 = OfType(sla_violations, "uptime")
              /\ WithSeverity(alerts', EMERGENCY)
                 = WithSeverity(alerts, EMERGENCY)
    ]_vars

\* Under the 50% threshold: one monitor has an UP, a DOWN that left the
\* uptime at 50% (no violation) and a DOWN that took it to 33% (one
\* violation); the other has three DOWN results and three violations.
C7_Witness ==
  \E m, n \in MonitorNames :
    /\ pc = "sleep"
    /\ sla_thresholds["uptime"].violation_threshold = 500
    /\ Len(seen[m]) = 3
    /\ seen[m][1].status = UP /\ seen[m][2].status = DOWN
    /\ seen[m][3].status = DOWN
    /\ \A i \in 1..3 : seen[n][i].status = DOWN
    /\ LET Of(k) == LET Is(v) == v.monitor_name = k
                    IN Len(SelectSeq(OfType(sla_violations, "uptime"), Is))
       IN Of(m) = 1 /\ Of(n) = 3
    /\ Len(WithSeverity(alerts, EMERGENCY)) = 4

\* C8: a step appends a response-time SLAViolation and dispatches one
\* WARNING SLA alert iff it is the response-time check of a result that
\* carries a latency strictly greater than the violation_threshold of the
\* response-time SLA; a latency equal to the threshold adds nothing.
C8_ResponseTimeViolationIff ==
  [][ LET qualifies ==
            /\ pc = "check_response_time"
            /\ cur_result.response_time # None
            /\ cur_result.response_time
               > sla_thresholds["api_response_time"].violation_threshold
          SlaWarnings(as) ==
            LET Is(a) == a.title = <<"SLA VIOLATION", "response_time">>
            IN SelectSeq(as, Is)
      IN IF qualifies
         THEN /\ Len(sla_violations') = Len(sla_violations) + 1
              /\ SubSeq(sla_violations', 1, Len(sla_violations))
                 = sla_violations
              /\ Last(sla_violations').sla_type = "response_time"
              /\ Last(sla_violations').monitor_name = cur_monitor
              /\ Last(sla_violations').timestamp = cur_result.timestamp
              /\ Len(alerts') = Len(alerts) + 1
              /\ Last(alerts').severity = WARNING
              /\ Last(alerts').incident_id = Last(sla_violations').violation_id
         ELSE /\ OfType(sla_violations', "response_time")
                 = OfType(sla_violations, "response_time")
              /\ SlaWarnings(alerts') = SlaWarnings(alerts)
    ]_vars

\* Under the default threshold of 500 ms: a monitor had results of 500 ms
\* (no violation), 600 ms (a violation) and 0 ms (none).
C8_Witness ==
  \E m \in MonitorNames :
    /\ pc = "sleep"
    /\ sla_thresholds["api_response_time"].violation_threshold = 500
    /\ Len(seen[m]) = 3
    /\ seen[m][1].response_time = 500
    /\ seen[m][2].response_time = 600
    /\ seen[m][3].response_time = 0
    /\ LET Is(v) == v.monitor_name = m
           mine == SelectSeq(OfType(sla_violations, "response_time"), Is)
       IN Len(mine) = 1 /\ mine[1].timestamp = seen[m][2].timestamp

\* C9: the uptime percentage a report gives for a monitor and a period is
\* exactly 100 when no retained result of the monitor lies in the period's
\* trailing window (or the monitor has no history), and K/N*100 otherwise,
\* N the retained results in the window and K those of them that are UP.
C9_UptimePercentage ==
  [][ report' # report =>
        \A m \in MonitorNames :
          IsWindowUptime(report'.monitors[m].uptime_percentage, m,
                         PeriodLength(report'.report_period))
    ]_vars

\* An hourly report made a day after the only result of a monitor, a DOWN
\* one, gives 100%; a daily report would count it.
C9_Witness ==
  \E m \in MonitorNames :
    /\ report # NoReport
    /\ report.report_period = "hourly"
    /\ report.generated_at = now
    /\ pc = "gather"
    /\ Len(Retained(m)) = 1
    /\ Retained(m)[1].status = DOWN
    /\ WindowResults(m, HOUR) = {}
    /\ WindowResults(m, DAY) = {1}
    /\ report.monitors[m].uptime_percentage = Pct(100, 1)

\* C10: the uptime check of a DOWN result decides on, and records, the
\* uptime over the trailing window of the measurement_period configured for
\* the uptime SLA threshold.
C10_UptimeWindowIsConfiguredPeriod ==
  [][ ( /\ pc = "check_uptime"
        /\ cur_result.status = DOWN ) =>
        LET uptime_threshold == sla_thresholds["uptime"]
            length == PeriodLength(uptime_threshold.measurement_period)
        IN IF WindowUptimeBelow(cur_monitor, length,
                                uptime_threshold.violation_threshold)
           THEN /\ Len(sla_violations') = Len(sla_violations) + 1
                /\ IsWindowUptime(Last(sla_violations').actual_value,
                                  cur_monitor, length)
           ELSE sla_violations' = sla_violations
    ]_vars

\* --------------------------------------- vocabulary of the retention claims
\* The results ingested for m whose timestamp lies in the trailing window
\* of the given length.
IngestedInWindow(m, length) ==
  {i \in 1..Len(seen[m]) : seen[m][i].timestamp >= now - length}

\* Every result ingested for m inside the window is still retained.
WindowKept(m, length) ==
  Cardinality(IngestedInWindow(m, length))
    = Cardinality(WindowResults(m, length))

\* C11: whenever the uptime of a monitor is computed over a period (by the
\* uptime check of a DOWN result, which uses the monthly window, or by a
\* report over its period), every result ingested for that monitor inside
\* the period's trailing window is still in the retained history.
C11_RetentionCoversUptimeWindow ==
  [][ /\ ( /\ pc = "check_uptime"
           /\ cur_result.status = DOWN ) => WindowKept(cur_monitor, MONTH)
      /\ report' # report =>
           \A m \in MonitorNames :
             WindowKept(m, PeriodLength(report'.report_period))
    ]_vars

\* ------------------------------------------ vocabulary of the fault claims
\* The loop has reached the wait that ends a tick.
TickEnded == pc \in {"sleep", "error_sleep"}

\* The result the probe of m yielded in this tick has gone through the
\* whole pipeline, once.
ProcessedOnce(m) ==
  /\ Cardinality({i \in 1..Len(seen[m]) : seen[m][i] = results[m]}) = 1
  /\ Cardinality({i \in 1..Len(Retained(m)) : Retained(m)[i] = results[m]})
       = 1
  /\ m \in DOMAIN uptime_stats
  /\ uptime_stats[m].total_checks = Len(seen[m])
  /\ uptime_stats[m].last_check = results[m].timestamp

\* C12: when a tick ends, whatever the probes of the other monitors did
\* (failed, timed out, raised, or yielded nothing), every monitor whose
\* probe yielded a result had exactly that one result ingested into history,
\* incident handling, SLA evaluation and statistics in the tick, and the
\* retention pruning of the tick has run.
C12_ProbeOutcomeKeepsTick ==
  TickEnded =>
    /\ pruned = ticks
    /\ \A m \in MonitorNames :
         IsMonitorResult(results[m]) => ProcessedOnce(m)

\* The probe of m in this tick did not end in a successful response: a
\* timeout, a transport error, an unexpected status, or an exception of the
\* task.
FailedProbe(m) ==
  \/ IsException(results[m])
  \/ /\ IsMonitorResult(results[m])
     /\ results[m].status_code # expected_status

\* C13: when a tick ends, every monitor whose probe did not end in a
\* successful response has a DOWN result with an error description ingested
\* in this tick, counted in its statistics and holding an incident open.
C13_FailedProbeIsDownResult ==
  TickEnded =>
    \A m \in MonitorNames :
      FailedProbe(m) =>
        /\ seen[m] # <<>>
        /\ Last(seen[m]).timestamp >= tick_start
        /\ Last(seen[m]).status = DOWN
        /\ Last(seen[m]).error_message # NoError
        /\ m \in DOMAIN uptime_stats
        /\ uptime_stats[m].last_check = Last(seen[m]).timestamp
        /\ Open(m)

\* C14: whatever the method of the monitor, a probe that got a response is
\* UP iff the code is the expected one and the latency is at most the
\* expected one, DEGRADED iff the code is the expected one and the latency
\* is above it, DOWN otherwise; a probe without a response (timeout,
\* transport error) is DOWN with no latency and no status code.
C14_StatusClassification ==
  \A m \in DOMAIN results :
    ~IsException(results[m]) =>
      LET r == results[m]
          expected_response_time == monitors[m].expected_response_time
      IN /\ IsMonitorResult(r)
         /\ r.status_code = None =>
              r.status = DOWN /\ r.response_time = None
         /\ r.status_code # None =>
              /\ r.status = UP <=>
                   /\ r.status_code = expected_status
                   /\ r.response_time <= expected_response_time
              /\ r.status = DEGRADED <=>
                   /\ r.status_code = expected_status
                   /\ r.response_time > expected_response_time
              /\ r.status = DOWN <=> r.status_code # expected_status

\* A step in which a _send_alert call returns or raises.
SendAlertEnds ==
  /\ alerts' # alerts
  /\ pc \in {"incident_alert", "resolve_alert", "check_uptime",
             "check_response_time"}

\* C15: every _send_alert call goes through every configured channel,
\* whatever the channels before it did, and no exception leaves the call.
C15_EverySinkAttempted ==
  [][ SendAlertEnds =>
        /\ Len(Last(alerts').attempts) = Len(alert_channels)
        /\ ~Last(alerts').raised
    ]_vars

\* The results of m that went through the whole pipeline.
ProcessedCount(m) ==
  IF m \in DOMAIN uptime_stats THEN uptime_stats[m].total_checks ELSE 0

\* C17: when the loop has been cancelled, every result stored in the
\* history has gone through incident handling, SLA evaluation and the
\* statistics update, and every open incident has had its alert sent.
C17_CancelledAtTickBoundary ==
  pc = "cancelled" =>
    \A m \in MonitorNames :
      /\ ProcessedCount(m) = Len(seen[m])
      /\ Open(m) => current_incidents[m].alert_sent

\* C16: only cancellation ends the loop.  From the except clause the loop
\* either is cancelled or waits one full interval and is back at the top of
\* the while loop; and, the loop's steps being fair, every tick is followed
\* by another tick unless the loop is cancelled (up to the bound on ticks),
\* in particular after a tick that ended in the except clause.
C16_LoopSurvivesFaultyTick ==
  /\ [][ pc = "error_sleep" =>
           \/ pc' = "cancelled"
           \/ pc' = "tick" /\ now' = now + check_interval
       ]_vars
  /\ (pc = "error_sleep" /\ ticks < MaxTicks)
       ~> (pc = "gather" \/ pc = "cancelled")
  /\ \A n \in 0..(MaxTicks - 1) :
       (ticks = n) ~> (ticks = n + 1 \/ pc = "cancelled")

\* The third tick has been started one interval after the second, both
\* earlier ticks having ended in the except clause, without pruning.
C16_Witness ==
  /\ pc = "gather"
  /\ ticks = 3
  /\ pruned = 0
  /\ tick_start = 2 * check_interval
  /\ now = tick_start

\* C18: the probes of the next tick are launched only after the present
\* tick has completed: every result its probes yielded has gone through the
\* pipeline and its retention pruning has run, also when processing a
\* result raised.
C18_TicksDoNotOverlap ==
  [][ ( /\ pc = "tick"
        /\ pc' = "gather"
        /\ ticks >= 1 ) =>
        /\ pruned = ticks
        /\ \A m \in MonitorNames :
             IsMonitorResult(results[m]) =>
               /\ m \in DOMAIN uptime_stats
               /\ uptime_stats[m].last_check = results[m].timestamp
    ]_vars

\* C19: the wait that follows a completed tick ends at the tick boundary,
\* the start of the tick plus the interval, or at once when the tick took
\* at least one interval.
C19_SleepsUntilTickBoundary ==
  [][ (pc = "sleep" /\ pc' = "tick") =>
        now' = Max2(now, tick_start + check_interval)
    ]_vars

\* The latencies of the results of m stored so far that the statistics
\* keep (those with a true response_time).
Latencies(m) ==
  LET Kept(r) == Truthy(r.response_time) IN SelectSeq(seen[m], Kept)

\* C20: while the incident handling and the SLA evaluation of a result take
\* place, the statistics of its monitor already include that result: the
\* counters count it and the latency statistics hold its latency.
C20_StatisticsFirst ==
  Processing(cur_monitor) /\ pc # "update_statistics" =>
    /\ ProcessedCount(cur_monitor) = Len(seen[cur_monitor])
    /\ uptime_stats[cur_monitor].last_check = cur_result.timestamp
    /\ Latencies(cur_monitor) # <<>> =>
         /\ cur_monitor \in DOMAIN performance_stats
         /\ Len(performance_stats[cur_monitor].response_times)
              = Len(Latencies(cur_monitor))

\* ------------------------------------- vocabulary of the retention claims
\* The positions of the history of m that hold a result not older than 24
\* hours at the current time.
NotOlderThanDay(m) ==
  {i \in 1..Len(Retained(m)) : Retained(m)[i].timestamp >= now - DAY}

\* The step is the pruning of a tick.
PruningStep == pc = "cleanup" /\ pc' = "sleep"

\* C21: pruning at time T keeps, for every monitor, exactly the results
\* whose timestamp is at or after T minus 24 hours (the result at the cutoff
\* included), in their order, and leaves counters, incidents and violations
\* as they are.
C21_PruningKeepsLastDay ==
  [][ PruningStep =>
        /\ DOMAIN monitor_results' = DOMAIN monitor_results
        /\ \A m \in DOMAIN monitor_results :
             LET kept == NotOlderThanDay(m)
                 Rank(i) == Cardinality({k \in kept : k <= i})
             IN /\ Len(monitor_results'[m]) = Cardinality(kept)
                /\ \A i \in kept :
                     monitor_results'[m][Rank(i)] = monitor_results[m][i]
        /\ UNCHANGED <<current_incidents, sla_violations, uptime_stats,
                       performance_stats>>
    ]_vars

\* A pruning has kept a result exactly at the cutoff and removed an older
\* one of the same monitor.
C21_Witness ==
  /\ pc = "sleep"
  /\ pruned = ticks
  /\ \E m \in MonitorNames :
       /\ Len(seen[m]) = 3
       /\ Len(Retained(m)) = 2
       /\ Retained(m)[1].timestamp = now - DAY
       /\ seen[m][1].timestamp < now - DAY

\* ------------------------------------ vocabulary of the statistics claims
\* The latencies the statistics of m have been given: those of the results
\* of m that went through the statistics update, in order.
StatLatencies(m) ==
  LET Kept(r) == Truthy(r.response_time)
      kept == SelectSeq(SubSeq(seen[m], 1, ProcessedCount(m)), Kept)
  IN [i \in 1..Len(kept) |-> kept[i].response_time]

Samples(s) == {s[i] : i \in 1..Len(s)}
Minimum(s) == CHOOSE x \in Samples(s) : \A y \in Samples(s) : x <= y
Maximum(s) == CHOOSE x \in Samples(s) : \A y \in Samples(s) : x >= y

\* C22: the latency ring of every monitor holds the most recent samples, at
\* most 1000 of them, and the stored minimum, average and maximum are those
\* of the samples in the ring.
C22_RingStatistics ==
  \A m \in DOMAIN performance_stats :
    LET stat == performance_stats[m]
        ring == stat.response_times
    IN /\ Len(ring) <= 1000
       /\ ring = LastN(StatLatencies(m), 1000)
       /\ ring # <<>> =>
            /\ stat.min_response_time = Minimum(ring)
            /\ stat.max_response_time = Maximum(ring)
            /\ stat.avg_response_time.num * Len(ring)
                 = Sum(ring) * stat.avg_response_time.den

\* The step is the statistics update of the result being processed.
StatisticsStep == pc = "update_statistics" /\ pc' # pc

Counters(m) ==
  IF m \in DOMAIN uptime_stats THEN uptime_stats[m] ELSE InitialUptimeStat

\* C23: the statistics update of a result adds one to total_checks of its
\* monitor, one to successful_checks when the result is UP and one to
\* failed_checks otherwise, and sets last_check to the result's timestamp;
\* the counters change in no other step; and total_checks is the sum of
\* successful_checks and failed_checks in every state.
C23_CountersCountResults ==
  /\ [](\A m \in DOMAIN uptime_stats :
          uptime_stats[m].total_checks
            = uptime_stats[m].successful_checks
              + uptime_stats[m].failed_checks)
  /\ [][ /\ StatisticsStep =>
              LET before == Counters(cur_monitor)
                  after == uptime_stats'[cur_monitor]
                  up == IF cur_result.status = UP THEN 1 ELSE 0
              IN /\ after.total_checks = before.total_checks + 1
                 /\ after.successful_checks = before.successful_checks + up
                 /\ after.failed_checks = before.failed_checks + 1 - up
                 /\ after.last_check = cur_result.timestamp
         /\ uptime_stats' # uptime_stats => StatisticsStep
       ]_vars

\* The statistics of one monitor have counted an UP and a DOWN result, and
\* those of another monitor a DEGRADED result.
C23_Witness ==
  /\ \E m \in DOMAIN uptime_stats :
       /\ uptime_stats[m].successful_checks > 0
       /\ uptime_stats[m].failed_checks > 0
  /\ \E m \in DOMAIN uptime_stats :
       /\ uptime_stats[m].failed_checks = Len(seen[m])
       /\ \E i \in 1..Len(seen[m]) : seen[m][i].status = DEGRADED

\* What the engine holds about monitor m: its history, its open incident,
\* its counters and its latency statistics ("absent" for a missing key).
MonitorState(m) ==
  LET Entry(dict) == IF m \in DOMAIN dict THEN <<dict[m]>> ELSE <<>>
  IN [history |-> Entry(monitor_results),
      incident |-> Entry(current_incidents),
      counters |-> Entry(uptime_stats),
      latency |-> Entry(performance_stats)]

\* C24: every step of the processing of a result of one monitor (storing
\* it, incident handling, SLA evaluation, statistics update) leaves the
\* history, open incident, counters and latency statistics of every other
\* monitor as they were.
C24_OtherMonitorsUntouched ==
  [][ pc = "process" \/ Processing(cur_monitor) =>
        \A m \in MonitorNames \ {cur_monitor} :
          MonitorState(m)' = MonitorState(m)
    ]_vars

\* The result of the second monitor has been processed to the end, without
\* an incident of its own, while the first monitor has an open incident, a
\* history, counters and latency statistics.
C24_Witness ==
  /\ pc = "cleanup"
  /\ Open(MonitorOrder[1])
  /\ ~Open(MonitorOrder[2])
  /\ MonitorOrder[1] \in DOMAIN performance_stats
  /\ performance_stats[MonitorOrder[1]].response_times # <<>>
  /\ uptime_stats[MonitorOrder[2]].total_checks = Len(seen[MonitorOrder[2]])
  /\ Len(seen[MonitorOrder[2]]) > 1

\* ------------------------------------ vocabulary of the violation claims
\* C25: two records at different positions of the violation log never have
\* the same violation_id.
C25_ViolationIdsDistinct ==
  \A i, j \in 1..Len(sla_violations) :
    i # j => sla_violations[i].violation_id # sla_violations[j].violation_id

\* s is a prefix of t.
IsPrefix(s, t) == Len(s) <= Len(t) /\ SubSeq(t, 1, Len(s)) = s

\* t is s with some of its elements left out, the others in their order.
IsSelection(t, s) ==
  \E kept \in SUBSET (1..Len(s)) :
    LET Pick(i) == i \in kept
        positions == Indices(s, Pick)
    IN t = [k \in 1..Len(positions) |-> s[positions[k]]]

\* C26: a step that is not retention pruning leaves every recorded
\* violation in its place and unmodified, and adds violations at the end of
\* the log only; retention pruning at most removes violations, without
\* modifying or reordering those it keeps.
C26_ViolationLogAppendOnly ==
  [][ /\ ~PruningStep => IsPrefix(sla_violations, sla_violations')
      /\ PruningStep => IsSelection(sla_violations', sla_violations)
    ]_vars

\* The log holds violations recorded in different ticks, with a pruning and
\* a report generated after the first of them was recorded.
C26_Witness ==
  /\ Len(sla_violations) >= 3
  /\ sla_violations[1].timestamp < Last(sla_violations).timestamp
  /\ pruned >= 2
  /\ report # NoReport
  /\ report.generated_at > sla_violations[1].timestamp

\* ---------------------------------------- vocabulary of the report claims
\* The step generates a report.
ReportStep == report' # report

\* The uptime of m over the window, K/N*100 or 100 when the window is empty,
\* is at least the percentage given in tenths of a percent.
WindowUptimeAtLeast(m, length, tenths) ==
  LET n == Cardinality(WindowResults(m, length))
      k == Cardinality(WindowUps(m, length))
  IN n = 0 \/ k * 1000 >= tenths * n

\* C27: a report has one entry per configured monitor; the entry's
\* compliance boolean is true iff the monitor's uptime over the report's
\* period is at least the target value of the uptime SLA; and the overall
\* compliance boolean is the conjunction of the entries' booleans (true for
\* a report without monitors).
C27_ReportCompliance ==
  [][ ReportStep =>
        LET entries == report'.monitors
        IN /\ DOMAIN entries = DOMAIN monitors
           /\ \A m \in DOMAIN entries :
                entries[m].sla_compliant
                  <=> WindowUptimeAtLeast(m,
                        PeriodLength(report'.report_period),
                        sla_thresholds["uptime"].target_value)
           /\ report'.overall_compliance.compliant
                <=> \A m \in DOMAIN entries : entries[m].sla_compliant
    ]_vars

\* A report in which one monitor, with an uptime of 50% against a target of
\* 60% and a violation threshold of 40%, is not compliant, the other monitor
\* is, and the report as a whole is not.
C27_Witness ==
  /\ report # NoReport
  /\ report.generated_at = now
  /\ sla_thresholds["uptime"].target_value = 600
  /\ \E m \in DOMAIN report.monitors :
       /\ report.monitors[m].uptime_percentage = Pct(100, 2)
       /\ ~report.monitors[m].sla_compliant
  /\ \E m \in DOMAIN report.monitors : report.monitors[m].sla_compliant
  /\ ~report.overall_compliance.compliant

\* The recorded violations whose timestamp lies in the trailing window of
\* the given length, in the order of the log.
ViolationsInWindow(length) ==
  LET Within(v) == v.timestamp >= now - length
  IN SelectSeq(sla_violations, Within)

\* C28: the violations a report lists are exactly the recorded violations
\* whose timestamp lies in the trailing window of the report's period (1
\* hour, 1 day, 30 days), and violation_count is their number.
C28_ReportListsPeriodViolations ==
  [][ ReportStep =>
        /\ report'.sla_violations
             = ViolationsInWindow(PeriodLength(report'.report_period))
        /\ report'.overall_compliance.violation_count
             = Len(report'.sla_violations)
    ]_vars

\* C29: the compensation owed of a report is the sum, over the records the
\* report lists, of their compensation rates, each record counted once.
C29_CompensationIsSumOfRates ==
  [][ ReportStep =>
        LET listed == report'.sla_violations
            rate == [i \in 1..Len(listed) |-> listed[i].compensation_rate]
        IN report'.overall_compliance.compensation_owed
             = Total(rate, 1..Len(listed))
    ]_vars

\* A report that lists four violations, two of them of one monitor and
\* kind, with three uptime rates and one response-time rate, and owes the
\* sum of the four rates.
C29_Witness ==
  /\ report # NoReport
  /\ LET listed == report.sla_violations
     IN /\ Len(listed) = 4
        /\ \E i, j \in 1..4 :
             /\ i # j
             /\ listed[i].monitor_name = listed[j].monitor_name
             /\ listed[i].sla_type = listed[j].sla_type
        /\ Len(OfType(listed, "uptime")) = 3
        /\ report.overall_compliance.compensation_owed
             = 3 * sla_thresholds["uptime"].compensation_rate
               + sla_thresholds["api_response_time"].compensation_rate

\* C30: generating a report changes nothing the loop works with: the
\* result history, the open incidents, the violation log, the counters, the
\* latency statistics, the thresholds and the configuration, the clock and
\* the position of the loop are the same after it as before, so that the
\* ticks that follow proceed as they would have without the report.
C30_ReportIsReadOnly ==
  [][ ReportStep =>
        UNCHANGED <<monitor_results, current_incidents, sla_violations,
                    uptime_stats, performance_stats, sla_thresholds,
                    monitors, alert_channels, check_interval, now, pc, ticks,
                    pending, results, idx, alerts>>
    ]_vars

\* A report was generated between two ticks, over a non-empty engine state,
\* and the tick after it has recorded further results and violations.
C30_Witness ==
  /\ report # NoReport
  /\ report.generated_at < now
  /\ report.sla_violations # <<>>
  /\ Len(sla_violations) > Len(report.sla_violations)
  /\ \E m \in DOMAIN uptime_stats :
       uptime_stats[m].total_checks > report.monitors[m].total_checks
  /\ pc = "sleep"

\* ------------------------------------ vocabulary of the threshold claims
\* The name under which the threshold of a kind of violation is looked up.
ThresholdName(sla_type) ==
  IF sla_type = "uptime" THEN "uptime" ELSE "api_response_time"

\* The step records a violation.
RecordsViolation == Len(sla_violations') = Len(sla_violations) + 1

\* C31: whatever the override map, the threshold set holds a threshold for
\* uptime and one for latency; and a step that records a violation takes
\* the record's threshold value and compensation rate from the threshold of
\* that kind present in the set at that moment.
C31_ThresholdsPresent ==
  /\ []({"uptime", "api_response_time"} \subseteq DOMAIN sla_thresholds)
  /\ [][ RecordsViolation =>
           LET violation == Last(sla_violations')
               name == ThresholdName(violation.sla_type)
           IN /\ name \in DOMAIN sla_thresholds
              /\ violation.threshold = sla_thresholds[name].target_value
              /\ violation.compensation_rate
                   = sla_thresholds[name].compensation_rate
       ]_vars

\* Under an override map that adds a new name and overrides fields of the
\* latency default, a latency violation and an uptime violation have been
\* recorded.
C31_Witness ==
  /\ "queue_depth" \in DOMAIN sla_thresholds
  /\ sla_thresholds["api_response_time"].target_value = 300
  /\ sla_thresholds["api_response_time"].violation_threshold = 500
  /\ \E i, j \in 1..Len(sla_violations) :
       /\ sla_violations[i].sla_type = "uptime"
       /\ sla_violations[j].sla_type = "response_time"
       /\ sla_violations[j].threshold = 300
       /\ sla_violations[j].compensation_rate = 7

\* ---------------------------------- vocabulary of the configuration claim
\* The configuration names only request methods the probe implements, and
\* every alert channel says of which type it is.
ValidConfiguration ==
  /\ \A m \in DOMAIN monitors : monitors[m].method \in {"GET", "POST"}
  /\ \A i \in 1..Len(alert_channels) : "type" \in DOMAIN alert_channels[i]

\* C32: an engine with an invalid configuration never starts a tick: it
\* launches no probe, processes no result and sends no alert.
C32_InvalidConfigurationNeverRuns ==
  ~ValidConfiguration =>
    /\ ticks = 0
    /\ pc = "tick"
    /\ pending = {}
    /\ results = EmptyDict
    /\ alerts = <<>>

\* ------------------------------------- vocabulary of the concurrency claim
\* The results ingested for m so far that are not UP.
IngestedNotUp(m) == {i \in 1..Len(seen[m]) : seen[m][i].status # UP}

\* C33: a report counts, in total_checks and failed_checks of every
\* monitor, every result that is in the monitor's history when the report
\* is generated: no result is seen stored but not yet counted.
C33_ReportSeesWholeResults ==
  [][ ReportStep =>
        \A m \in DOMAIN report'.monitors :
          /\ report'.monitors[m].total_checks = Len(seen[m])
          /\ report'.monitors[m].failed_checks
               = Cardinality(IngestedNotUp(m))
    ]_vars

\* ------------------------------------ vocabulary of the uptime-check claim
\* The step is the uptime check of a DOWN result.
DownUptimeCheck == pc = "check_uptime" /\ cur_result.status = DOWN

\* C34: at the uptime check of a DOWN result the result is one of the N
\* results of the window the uptime is computed from, so at most N - 1 of
\* them are UP and a recorded uptime is at most (N-1)/N*100; and with the
\* default violation threshold of 99.8 the check records an uptime violation
\* whenever N is less than 500.
C34_DownResultCountsInUptime ==
  [][ DownUptimeCheck =>
        LET window == WindowResults(cur_monitor, MONTH)
            n == Cardinality(window)
            k == Cardinality(WindowUps(cur_monitor, MONTH))
        IN /\ \E i \in window : Retained(cur_monitor)[i] = cur_result
           /\ n >= 1
           /\ k <= n - 1
           /\ RecordsViolation =>
                LET actual == Last(sla_violations').actual_value
                IN actual.num * n <= 100 * (n - 1) * actual.den
           /\ ( /\ sla_thresholds["uptime"].violation_threshold = 998
                /\ n < 500 ) =>
                /\ RecordsViolation
                /\ Last(sla_violations').sla_type = "uptime"
                /\ Last(sla_violations').monitor_name = cur_monitor
    ]_vars

\* The DOWN result that is the 499th of its window, after 498 UP results,
\* has recorded an uptime violation with an uptime of 498/499*100.
C34_Witness ==
  /\ pc = "check_response_time"
  /\ cur_result.status = DOWN
  /\ Cardinality(WindowResults(cur_monitor, MONTH)) = 499
  /\ Cardinality(WindowUps(cur_monitor, MONTH)) = 498
  /\ sla_violations # <<>>
  /\ Last(sla_violations).monitor_name = cur_monitor
  /\ Last(sla_violations).timestamp = cur_result.timestamp
  /\ Last(sla_violations).actual_value = Pct(49800, 499)

\* ----------------------------------- vocabulary of the open-incident claim
\* The alerts dispatched so far that announce an incident.
IncidentAlerts ==
  LET Announces(a) == a.title \in {<<"Service", DOWN>>, <<"Service", DEGRADED>>}
  IN SelectSeq(alerts, Announces)

\* The loop is about to process a non-UP result of a monitor that has an
\* open incident.
FurtherNotUp ==
  /\ pc = "process"
  /\ IsMonitorResult(cur_result)
  /\ cur_result.status # UP
  /\ Open(cur_monitor)

\* C35: the processing of a further non-UP result of a monitor with an open
\* incident leaves the incident as it is (identity, start time, status and
\* error message of the result that opened it) and dispatches no incident
\* alert: incident handling does nothing, and the SLA evaluation and the
\* statistics update that follow do not touch incidents.
C35_OpenIncidentUnchanged ==
  [][ /\ FurtherNotUp =>
           /\ current_incidents' = current_incidents
           /\ alerts' = alerts
           /\ pc' = "check_uptime"
      /\ pc \in {"check_uptime", "check_response_time", "update_statistics"} =>
           /\ current_incidents' = current_incidents
           /\ IncidentAlerts' = IncidentAlerts
    ]_vars

\* An incident opened by a DEGRADED result is unchanged after a DOWN result
\* of the same monitor has been processed to the end, and one incident
\* alert has been dispatched for the monitor.
C35_Witness ==
  \E m \in MonitorNames :
    /\ pc = "cleanup"
    /\ Len(seen[m]) = 2
    /\ seen[m][1].status = DEGRADED
    /\ seen[m][2].status = DOWN
    /\ ProcessedCount(m) = 2
    /\ Open(m)
    /\ current_incidents[m].status = DEGRADED
    /\ current_incidents[m].start_time = seen[m][1].timestamp
    /\ current_incidents[m].error_message = seen[m][1].error_message
    /\ current_incidents[m].error_message # seen[m][2].error_message
    /\ Len(OpeningAlerts(m)) = 1

\* C36: every record of the violation log is a breach of the threshold
\* value the record itself carries: the actual value of an uptime violation
\* is strictly below it, that of a latency violation strictly above it.
C36_ViolationBreachesOwnThreshold ==
  \A i \in 1..Len(sla_violations) :
    LET violation == sla_violations[i]
        actual == violation.actual_value
    IN IF violation.sla_type = "uptime"
       THEN actual.num * 10 < violation.threshold * actual.den
       ELSE actual.num > violation.threshold * actual.den

\* ---------------------------------------- vocabulary of the consent claim
\* The step is a call of the given function, for the given pair.
Calls(call, pair) ==
  /\ returned' # returned \/ consent_records' # consent_records
  /\ returned'.call = call
  /\ returned'.user_id = pair[1]
  /\ returned'.purpose = pair[2]

\* What the calls for a pair say at the present time: the latest
\* record_consent for it gave consent, has not expired, and no
\* withdraw_consent for the pair came after it.
ConsentStands(pair) ==
  LET said == consent_history[pair]
  IN /\ said.recorded
     /\ said.consent_given
     /\ ~said.withdrawn
     /\ said.expiry_date # None => now <= said.expiry_date

\* C37: for every (user, purpose) pair, check_consent_validity returns
\* true only if the latest record_consent for the pair gave consent, has not
\* expired, and no withdraw_consent for the pair happened since; and
\* withdraw_consent returns false and changes no record when no consent was
\* ever recorded for the pair.
C37_ConsentValidity ==
  [][ \A pair \in ConsentPairs :
        /\ ( Calls("check_consent_validity", pair) /\ returned'.value )
             => ConsentStands(pair)
        /\ ( Calls("withdraw_consent", pair)
             /\ ~consent_history[pair].recorded )
             => /\ ~returned'.value
                /\ consent_records' = consent_records
    ]_vars
====
